---- MODULE Spec2Model ----
(***************************************************************************)
(* CardConvert: discovery of card bundles (BasicCard.crawler), the per-card *)
(* conversion pipeline (BasicCard.process and its stages) and the parallel  *)
(* dispatcher (util.execute_pool).                                          *)
(*                                                                          *)
(* File names are sequences of one-character strings, so that splitext,     *)
(* re.match('^\.'), re.split(frame_re) and sorted() are computed on the     *)
(* characters as the library computes them.  A path is a record             *)
(* [dir |-> sequence of directory names, file |-> file name].               *)
(***************************************************************************)
EXTENDS Integers, Sequences, FiniteSets, TLC

\* ------------------------------------------------------------------ bounds
\* directories one os.walk yields at most (the root included)
MaxDirs == 3
\* files the whole tree holds at most
MaxFiles == 4
\* cards one run of execute_pool discovers at most
MaxCards == 2
\* worker processes of the pool at most
MaxProcs == 2

\* ------------------------------------------------------------ file names
\* ord() of the characters that occur in the modelled file names
Ord(c) ==
    CASE c = "." -> 46
      [] c = "1" -> 49
      [] c = "2" -> 50
      [] c = "A" -> 65
      [] c = "B" -> 66
      [] c = "_" -> 95
      [] c = "j" -> 106
      [] c = "p" -> 112

Digits == {"1", "2"}

\* the file names a directory listing can hold
FileNames ==
    { <<"A", ".", "p">>,                 \* A.p
      <<"A", ".", "j">>,                 \* A.j    same base name, other extension
      <<"B", ".", "p">>,                 \* B.p
      <<"A", "_", "1", ".", "p">>,       \* A_1.p  frame 1 of A
      <<"A", "_", "2", ".", "p">>,       \* A_2.p  frame 2 of A
      <<".", "A", ".", "p">>,            \* .A.p   hidden
      <<".", "A", "_", "1", ".", "p">> } \* .A_1.p hidden frame

\* the names of the sub-directories; "anim" is the configured anim_folder
AnimFolder == "anim"
DirNames == {"anim", "sub"}
RootPath == <<"root">>

\* str < str: lexicographic on the character codes
RECURSIVE StrLess(_, _)
StrLess(a, b) ==
    IF a = <<>> THEN b # <<>>
    ELSE IF b = <<>> THEN FALSE
    ELSE IF Ord(Head(a)) # Ord(Head(b)) THEN Ord(Head(a)) < Ord(Head(b))
    ELSE StrLess(Tail(a), Tail(b))

\* sorted(files) with the order reversed
RECURSIVE sorted_reversed(_)
sorted_reversed(files) ==
    IF files = {} THEN <<>>
    ELSE LET m == CHOOSE x \in files : \A y \in files \ {x} : StrLess(y, x)
         IN  <<m>> \o sorted_reversed(files \ {m})

\* sorted(files): the listing of one directory in ascending order
RECURSIVE sorted(_)
sorted(files) ==
    IF files = {} THEN <<>>
    ELSE LET m == CHOOSE x \in files : \A y \in files \ {x} : StrLess(x, y)
         IN  <<m>> \o sorted(files \ {m})

\* re.match('^\.', file_) with the test dropped
is_hidden_never(file_) == FALSE

\* re.match('^\.', file_): the name starts with a dot
is_hidden(file_) == file_ # <<>> /\ file_[1] = "."

\* os.path.splitext(file_)[0]: cut at the last dot, unless only dots precede it
splitext_root(file_) ==
    LET dots == {i \in 1..Len(file_) : file_[i] = "."}
    IN  IF dots = {} THEN file_
        ELSE LET dotIndex == CHOOSE i \in dots : \A j \in dots : j <= i
             IN  IF \A k \in 1..(dotIndex - 1) : file_[k] = "."
                 THEN file_
                 ELSE SubSeq(file_, 1, dotIndex - 1)

\* os.path.splitext(file_)[1]
splitext_ext(file_) ==
    LET root == splitext_root(file_)
    IN  SubSeq(file_, Len(root) + 1, Len(file_))

\* re.split(frame_re, header)[0] for frame_re = '_\d+': the text before the
\* first underscore that a digit follows
frame_split_first(header) ==
    LET hits == {i \in 1..(Len(header) - 1) :
                    header[i] = "_" /\ header[i + 1] \in Digits}
    IN  IF hits = {} THEN header
        ELSE LET first == CHOOSE i \in hits : \A j \in hits : i <= j
             IN  SubSeq(header, 1, first - 1)

\* os.path.join(path, file_)
fullpath(path, file_) == [dir |-> path, file |-> file_]

\* os.path.basename(path) of a directory path
dir_basename(path) == path[Len(path)]

\* ------------------------------------------------------------- crawler
\* "if header not in cards" with the test always true
key_is_new_always(cards, header) == TRUE

\* "if header not in cards"
key_is_new(cards, header) == header \notin DOMAIN cards

\* the body of "if not animated": one sorted listing of a static directory
RECURSIVE crawl_static(_, _, _)
crawl_static(cards, path, files) ==
    IF files = <<>> THEN cards
    ELSE LET file_ == Head(files)
             header == splitext_root(file_)
             next == IF ~is_hidden(file_) /\ key_is_new(cards, header)
                     THEN [k \in DOMAIN cards \cup {header} |->
                             IF k = header
                             THEN [static |-> fullpath(path, file_),
                                   animated |-> <<>>]
                             ELSE cards[k]]
                     ELSE cards
         IN  crawl_static(next, path, Tail(files))

\* "if header in cards: cards[header]['animated'].append(fullpath)" with a
\* bundle made for a key that has none (cards.setdefault(header,
\* {'animated': []}))
append_frame_setdefault(cards, header, frame) ==
    IF header \in DOMAIN cards
    THEN [cards EXCEPT ![header].animated = Append(@, frame)]
    ELSE [k \in DOMAIN cards \cup {header} |->
            IF k = header THEN [animated |-> <<frame>>] ELSE cards[k]]

\* "if header in cards: cards[header]['animated'].append(fullpath)"
append_frame(cards, header, frame) ==
    IF header \in DOMAIN cards
    THEN [cards EXCEPT ![header].animated = Append(@, frame)]
    ELSE cards

\* the body of "if animated": one sorted listing of an animation directory
RECURSIVE crawl_animated(_, _, _)
crawl_animated(cards, path, files) ==
    IF files = <<>> THEN cards
    ELSE LET file_ == Head(files)
             header == frame_split_first(splitext_root(file_))
             next == IF ~is_hidden(file_)
                     THEN append_frame(cards, header, fullpath(path, file_))
                     ELSE cards
         IN  crawl_animated(next, path, Tail(files))

\* one iteration of "for path, subdir, files in os.walk(target_dir)"
crawl_dir(cards, path, files) ==
    IF dir_basename(path) = AnimFolder
    THEN crawl_animated(cards, path, sorted(files))
    ELSE crawl_static(cards, path, sorted(files))

\* ------------------------------------------------------ cards and config
\* the one locale of the modelled run and the base output directory
Locale == "enUS"
OutputDir == "out"

\* the output directories a stage method is tried with: the one of the runs,
\* and one whose name holds an underscore followed by a digit
OutputDirs == {"out", "out_1"}

\* config['card_types'][card_class]['outputs']: the output kinds of a class
ConfigOutputs ==
    <<"original", "medium", "small", "mediumj", "icons/small", "icons/medium",
      "icons/large", "animated">>

\* config['processes']
ConfigProcesses == 2

\* the configuration file as it is shipped
DefaultConfig == [processes |-> ConfigProcesses, outputs |-> ConfigOutputs]

\* a list of output kinds with one kind taken out
without(outputs, kind) ==
    LET keep(o) == o # kind IN SelectSeq(outputs, keep)

\* the configurations a run can be given: the shipped one, and ones whose
\* classes do not list the 'original' or the 'animated' output kind
Configs ==
    {DefaultConfig,
     [processes |-> ConfigProcesses, outputs |-> without(ConfigOutputs, "original")],
     [processes |-> ConfigProcesses, outputs |-> without(ConfigOutputs, "animated")]}

\* one card instance: BasicCard(config, name, locale, info) of a sub-class
Card(class, name, static, animated) ==
    [card_class |-> class, name |-> name, locale |-> Locale,
     info |-> [static |-> static, animated |-> animated]]

InputDir(class) == <<"in", class>>

\* the instances discovery can hand to the pool: bundles as crawler builds them
CardPool ==
    { Card("cards", "A", fullpath(InputDir("cards"), <<"A", ".", "p">>), <<>>),
      Card("cards", "B", fullpath(InputDir("cards"), <<"B", ".", "p">>),
           <<fullpath(InputDir("cards") \o <<AnimFolder>>, <<"B", "_", "1", ".", "p">>)>>),
      Card("cardbacks", "C", fullpath(InputDir("cardbacks"), <<"C", ".", "p">>),
           <<fullpath(InputDir("cardbacks") \o <<AnimFolder>>, <<"C", "_", "1", ".", "p">>),
             fullpath(InputDir("cardbacks") \o <<AnimFolder>>, <<"C", "_", "2", ".", "p">>)>>) }

VARIABLES
    cpc,        \* crawler: "idle", "start", "walking", "returned"
    isdir,      \* os.path.isdir(target_dir) of the directory that is crawled
    walked,     \* crawler: the (path, files) pairs os.walk has yielded so far
    cards,      \* crawler: the local dict cards
    crawled,    \* crawler: the returned dict (execute_pool: one dict per class)
    config,     \* the configuration shared by all cards
    mainpc,     \* execute_pool: "idle", "start", "discover", "submit", "collect",
                \* "returned", "raised"
    processes,  \* execute_pool: the size of the pool
    instances,  \* execute_pool: the list get_card_instances returned
    taskq,      \* pool: the submitted cards no worker has taken yet
    worker,     \* pool: the card each worker process is running (0: idle)
    info,       \* card: self._info of each instance
    pos,        \* card: how many steps of process have run
    status,     \* card: "new", "queued", "running", "Done", "Failed"
    trace,      \* card: the steps of process that ran, in order (history)
    result,     \* pool: the outcome stored in each card's AsyncResult
    finished,   \* pool: the cards in the order their results arrived (history)
    output,     \* execute_pool: the list output
    raised,     \* execute_pool: the exception that left it
    dirs,       \* disk: the output directories that exist
    outfiles,   \* disk: the output files that exist, with what they hold
    copying,    \* disk: the copies of _cp_original in flight: the files that
                \* shutil.copy2 has opened and not yet written
    communicating,
                \* pool: the cards whose stage method has started its tool
                \* with subprocess.Popen and waits in proc.communicate()
    denied,     \* disk: what the system refuses to create during the run of
                \* execute_pool: nothing, the directories of the output
                \* kinds, or the output directory
    unit        \* one card outside the pool: a stage method called on its own,
                \* or process called on the card and called again; or the loop
                \* of get_card_instances over the card types

crawlVars == <<cpc, isdir, walked, cards, crawled>>
poolVars == <<config, mainpc, processes, instances, taskq, worker, info, pos,
              status, trace, result, finished, output, raised, dirs, outfiles,
              copying, communicating, denied>>
vars == <<crawlVars, poolVars, unit>>

EmptyDict == [k \in {} |-> <<>>]

\* the number of files in the directories visited so far
RECURSIVE FilesWalked(_)
FilesWalked(w) ==
    IF w = <<>> THEN 0 ELSE Cardinality(Head(w).files) + FilesWalked(Tail(w))

\* the listings the next directory can have
Listings ==
    {fs \in SUBSET FileNames : FilesWalked(walked) + Cardinality(fs) <= MaxFiles}

\* os.walk is top-down: the next directory is a child, not yet visited, of
\* the current directory or of one of its ancestors; siblings come in the
\* order of os.listdir, which is arbitrary
NextPaths ==
    IF walked = <<>> THEN {RootPath}
    ELSE LET cur == walked[Len(walked)].path
             seen == {walked[i].path : i \in 1..Len(walked)}
         IN  {SubSeq(cur, 1, k) \o <<n>> : k \in 1..Len(cur), n \in DirNames}
                \ seen

\* execute_pool is not called
DispatcherIdle ==
    /\ mainpc = "idle"
    /\ processes = 0
    /\ instances = <<>>
    /\ taskq = <<>>
    /\ worker = <<>>
    /\ info = <<>>
    /\ pos = <<>>
    /\ status = <<>>
    /\ trace = <<>>
    /\ result = <<>>
    /\ finished = <<>>
    /\ output = <<>>
    /\ raised = [tag |-> "none"]

\* the variables of the dispatcher before execute_pool is called
PoolIdle ==
    /\ config = DefaultConfig
    /\ DispatcherIdle
    /\ dirs = {}
    /\ outfiles = {}
    /\ copying = {}
    /\ communicating = {}
    /\ denied = {}

\* no card is handled outside the pool
UnitIdle == unit = [pc |-> "idle"]

\* no crawl is running
CrawlIdle ==
    /\ cpc = "idle"
    /\ isdir = FALSE
    /\ walked = <<>>
    /\ cards = EmptyDict
    /\ crawled = EmptyDict

CrawlInit ==
    /\ PoolIdle
    /\ UnitIdle
    /\ cpc = "start"
    /\ isdir \in BOOLEAN
    /\ walked = <<>>
    /\ cards = EmptyDict
    /\ crawled = EmptyDict

\* cards = {} ; if os.path.isdir(target_dir): ... else: return cards
CrawlStart ==
    /\ cpc = "start"
    /\ cpc' = IF isdir THEN "walking" ELSE "returned"
    /\ UNCHANGED <<isdir, walked, cards, crawled, poolVars, unit>>

\* os.walk yields the next directory and the loop body handles its files
CrawlWalk ==
    /\ cpc = "walking"
    /\ Len(walked) < MaxDirs
    /\ \E path \in NextPaths, files \in Listings :
          /\ walked' = Append(walked, [path |-> path, files |-> files])
          /\ cards' = crawl_dir(cards, path, files)
    /\ UNCHANGED <<cpc, isdir, crawled, poolVars, unit>>

\* os.walk is exhausted: return cards
CrawlReturn ==
    /\ cpc = "walking"
    /\ walked # <<>>
    /\ cpc' = "returned"
    /\ crawled' = cards
    /\ UNCHANGED <<isdir, walked, cards, poolVars, unit>>

CrawlNext == CrawlStart \/ CrawlWalk \/ CrawlReturn

CrawlSpec == CrawlInit /\ [][CrawlNext]_vars

\* ------------------------------------------------------ crawler: claims
\* what the claims say of a walk, in terms of the directories it visited
StartsWithDot(f) == f # <<>> /\ Head(f) = "."
IsAnimDir(w) == w.path[Len(w.path)] = AnimFolder
Range(s) == {s[i] : i \in 1..Len(s)}
\* the static files of the walk: the visible files outside animation folders
StaticFiles ==
    {fullpath(walked[i].path, f) : i \in {j \in 1..Len(walked) : ~IsAnimDir(walked[j])},
                                  f \in {g \in FileNames : ~StartsWithDot(g)}}
      \cap UNION {{fullpath(walked[i].path, f) : f \in walked[i].files} : i \in 1..Len(walked)}
\* the frames of the walk: the visible files inside animation folders
FrameFiles ==
    {fullpath(walked[i].path, f) : i \in {j \in 1..Len(walked) : IsAnimDir(walked[j])},
                                  f \in {g \in FileNames : ~StartsWithDot(g)}}
      \cap UNION {{fullpath(walked[i].path, f) : f \in walked[i].files} : i \in 1..Len(walked)}
FrameKey(p) == frame_split_first(splitext_root(p.file))
StaticKey(p) == splitext_root(p.file)

\* C8 as claimed: whatever the order of the walk, every visible frame whose
\* key is the base name of a static file of the tree is in the animated list
\* of the bundle of that key.
C8_FramesMergedInAnyOrder ==
    cpc = "returned" =>
        \A fr \in FrameFiles :
            (\E st \in StaticFiles : StaticKey(st) = FrameKey(fr)) =>
                /\ FrameKey(fr) \in DOMAIN crawled
                /\ fr \in Range(crawled[FrameKey(fr)].animated)

\* the walk of C9: a root with static files and its animation sub-folder
RootWithAnimFolder ==
    /\ cpc = "returned"
    /\ Len(walked) = 2
    /\ walked[2].path = RootPath \o <<AnimFolder>>

\* C9: crawling a directory that holds static files and an animation folder
\* gives one bundle per static base name, whose static file is of the root
\* and whose animated list is exactly the frames of its key, ascending by
\* file name (so empty for a static file without frames).
C9_RootAndAnimFolderBundles ==
    RootWithAnimFolder =>
        /\ DOMAIN crawled = {StaticKey(st) : st \in StaticFiles}
        /\ \A k \in DOMAIN crawled :
              LET a == crawled[k].animated
              IN  /\ crawled[k].static \in StaticFiles
                  /\ StaticKey(crawled[k].static) = k
                  /\ Range(a) = {fr \in FrameFiles : FrameKey(fr) = k}
                  /\ Len(a) = Cardinality(Range(a))
                  /\ \A i \in 1..Len(a), j \in 1..Len(a) :
                        i < j => StrLess(a[i].file, a[j].file)

\* C9 witness: A.p, B.p, anim/A_1.p, anim/A_2.p gives A with [A_1, A_2], B with []
C9_Witness ==
    /\ RootWithAnimFolder
    /\ walked[1].files = {<<"A", ".", "p">>, <<"B", ".", "p">>}
    /\ walked[2].files = {<<"A", "_", "1", ".", "p">>, <<"A", "_", "2", ".", "p">>}
    /\ DOMAIN crawled = {<<"A">>, <<"B">>}
    /\ Len(crawled[<<"A">>].animated) = 2
    /\ crawled[<<"A">>].animated[1].file = <<"A", "_", "1", ".", "p">>
    /\ crawled[<<"B">>].animated = <<>>

\* C10: no file whose name starts with a dot is the static path or a frame
\* of a returned bundle, and every bundle key is the base name of the visible
\* static file the bundle holds.
C10_HiddenFilesNeverBundled ==
    cpc = "returned" =>
        \A k \in DOMAIN crawled :
            /\ ~StartsWithDot(crawled[k].static.file)
            /\ \A fr \in Range(crawled[k].animated) : ~StartsWithDot(fr.file)
            /\ ~StartsWithDot(k)
            /\ crawled[k].static \in StaticFiles

\* C10 witness: a walk that met a hidden static file and a hidden frame and
\* returned a bundle with a frame
C10_Witness ==
    /\ cpc = "returned"
    /\ \E i \in 1..Len(walked) :
          ~IsAnimDir(walked[i]) /\ \E f \in walked[i].files : StartsWithDot(f)
    /\ \E i \in 1..Len(walked) :
          IsAnimDir(walked[i]) /\ \E f \in walked[i].files : StartsWithDot(f)
    /\ \E k \in DOMAIN crawled : crawled[k].animated # <<>>

\* ------------------------------------------------------------ the stages
\* the stages of the base class that run one external tool
TenStages ==
    {"medium", "small", "jpg", "icon_small", "icon_medium", "icon_large",
     "animated_png", "animated_gif", "mp4", "webm"}

\* the output kind each stage asks _get_input_output / _web_format_prep for
output_type(stage) ==
    CASE stage = "medium" -> "medium"
      [] stage = "small" -> "small"
      [] stage = "jpg" -> "mediumj"
      [] stage = "icon_small" -> "icons/small"
      [] stage = "icon_medium" -> "icons/medium"
      [] stage = "icon_large" -> "icons/large"
      [] stage \in {"animated_png", "animated_gif", "mp4", "webm"} -> "animated"

\* the exception class each stage raises
stage_error(stage) ==
    CASE stage = "medium" -> "MakeMediumCopyError"
      [] stage = "small" -> "MakeSmallCopyError"
      [] stage = "jpg" -> "MakeJpgCopyError"
      [] stage = "icon_small" -> "MakeSmallIconError"
      [] stage = "icon_medium" -> "MakeMediumIconError"
      [] stage = "icon_large" -> "MakeLargeIconError"
      [] stage = "animated_png" -> "MakeAnimatedPNGError"
      [] stage = "animated_gif" -> "MakeAnimatedGIFError"
      [] stage = "mp4" -> "MakeMP4Error"
      [] stage = "webm" -> "MakeWEBMError"

\* the command text of each stage (_make_*_cmd) with %s for every path, as
\* the pieces the code joins: one piece for a format string, and for the
\* animated container 'apngasm %s ' followed by '%s ' for every frame
stage_template(stage, info_) ==
    CASE stage = "medium" ->
            <<"convert %s -filter lanczos -resize 200x303 -unsharp 1.5x1+0.7+0.02 %s">>
      [] stage = "small" ->
            <<"convert %s -filter lanczos -resize 123x186 -unsharp 1.5x1+0.7+0.02 %s">>
      [] stage = "jpg" ->
            <<"convert %s -background \"#242424\" -layers flatten -filter lanczos -resize 200x303 +repage -gravity south -crop 200x302+0+0 +repage -unsharp 1.5x1+0.7+0.02 -quality 85% %s">>
      [] stage = "icon_small" ->
            <<"convert %s -filter lanczos -resize 11x16 -unsharp 1.5x1+0.7+0.02 %s">>
      [] stage = "icon_medium" ->
            <<"convert %s -filter lanczos -resize 30x44 -unsharp 1.5x1+0.7+0.02 %s">>
      [] stage = "icon_large" ->
            <<"convert %s -filter lanczos -resize 40x60 -unsharp 1.5x1+0.7+0.02 %s">>
      [] stage = "animated_png" ->
            <<"apngasm %s ">> \o [n \in 1..Len(info_.animated) |-> "%s "]
      [] stage = "animated_gif" -> <<"apng2gif %s %s">>
      [] stage = "mp4" ->
            <<"ffmpeg -f image2 -framerate 11 -i %s -profile:v baseline -level 3.0 -pix_fmt yuv420p %s">>
      [] stage = "webm" -> <<"ffmpeg -f image2 -framerate 11 -i %s  %s">>

\* '%s.ext' % os.path.splitext(output)[0]
with_ext(path, ext) == [dir |-> path.dir, file |-> splitext_root(path.file) \o ext]

\* re.sub(frame_re, '_%04d', header) for frame_re = '_\d+'
RECURSIVE drop_digits(_)
drop_digits(h) ==
    IF h # <<>> /\ Head(h) \in Digits THEN drop_digits(Tail(h)) ELSE h
RECURSIVE frame_sub(_)
frame_sub(h) ==
    IF h = <<>> THEN <<>>
    ELSE IF Head(h) = "_" /\ Len(h) >= 2 /\ h[2] \in Digits
         THEN <<"_", "%", "0", "4", "d">> \o frame_sub(drop_digits(Tail(h)))
         ELSE <<Head(h)>> \o frame_sub(Tail(h))

\* re.sub(frame_re, '_%04d', ...) on the name of a directory.  Directory
\* names are whole strings; of the names the model has (the output
\* directories, the card classes, the locale, the output kinds,
\* animation_temp, the input folders) only out_1 holds an underscore
\* followed by digits
frame_sub_dir(name) == IF name = "out_1" THEN "out_%04d" ELSE name

\* os.path.join(output_dir, self.card_class, self.locale, output)
output_path_in(output_dir, card, kind) == <<output_dir, card.card_class, card.locale, kind>>
output_path(card, kind) == output_path_in(OutputDir, card, kind)

\* _get_input_output(output_type), when its lookups succeed
get_input_output(info_, type) ==
    [input |-> info_.static,
     output |-> [dir |-> info_.output_paths[type], file |-> info_.static.file]]

\* _web_format_prep(fext), when its lookups succeed: splitext and re.sub work
\* on the whole path of the first composited frame, so the frame pattern is
\* substituted in the names of its directories as in its file name
web_format_prep(info_, fext) ==
    LET input_ == info_.ff_out[1]
        header == frame_sub(splitext_root(input_.file))
        io == get_input_output(info_, "animated")
    IN  [input |-> [dir |-> [n \in 1..Len(input_.dir) |-> frame_sub_dir(input_.dir[n])],
                    file |-> header \o splitext_ext(input_.file)],
         output |-> with_ext(io.output, <<".">> \o fext)]

\* the lookup a stage fails on before it builds its command ("" when none)
stage_key_error(stage, info_) ==
    IF stage \in {"mp4", "webm"} /\ "ff_out" \notin DOMAIN info_ THEN "ff_out"
    ELSE IF stage \in {"mp4", "webm"} /\ info_.ff_out = <<>> THEN "ff_out[0]"
    ELSE IF "output_paths" \notin DOMAIN info_ THEN "output_paths"
    ELSE IF output_type(stage) \notin DOMAIN info_.output_paths THEN output_type(stage)
    ELSE ""

\* the exception of that lookup: a missing key of a dict is a KeyError, the
\* first element of an empty list an IndexError
stage_lookup_error(stage, info_) ==
    IF stage_key_error(stage, info_) = "ff_out[0]"
    THEN [kind |-> "IndexError", value |-> "list index out of range"]
    ELSE [kind |-> "KeyError", value |-> stage_key_error(stage, info_)]

\* the command a stage builds: its template, its input files and its output
stage_cmd(stage, info_) ==
    LET io == get_input_output(info_, output_type(stage))
    IN  CASE stage \in {"medium", "small", "icon_small", "icon_medium", "icon_large"} ->
                [template |-> stage_template(stage, info_), inputs |-> <<io.input>>,
                 output |-> io.output]
          [] stage = "jpg" ->
                [template |-> stage_template(stage, info_), inputs |-> <<io.input>>,
                 output |-> with_ext(io.output, <<".", "j", "p", "g">>)]
          [] stage = "animated_png" ->
                [template |-> stage_template(stage, info_), inputs |-> info_.animated,
                 output |-> io.output]
          [] stage = "animated_gif" ->
                [template |-> stage_template(stage, info_), inputs |-> <<io.output>>,
                 output |-> with_ext(io.output, <<".", "g", "i", "f">>)]
          [] stage = "mp4" ->
                LET w == web_format_prep(info_, <<"m", "p", "4">>)
                IN  [template |-> stage_template(stage, info_), inputs |-> <<w.input>>,
                     output |-> w.output]
          [] stage = "webm" ->
                LET w == web_format_prep(info_, <<"w", "e", "b", "m">>)
                IN  [template |-> stage_template(stage, info_), inputs |-> <<w.input>>,
                     output |-> w.output]

\* "if return_code != 0" with the test never true
tool_failed_never(return_code) == FALSE

\* "if return_code != 0"
tool_failed(return_code) == return_code # 0

\* a stage method from run_cmd(cmd) on, on the disk fs, the tool answering
\* (rc, out, err): what the call returns or raises, and the command run_cmd
\* executed.  After a conversion that exits 0 the animated loop stage
\* calls os.remove(input_), which raises OSError when the container is not
\* on the disk.
run_stage_cmd(stage, cmd, tool, fs) ==
    IF tool_failed(tool.rc)
    THEN [tag |-> "raised", invoked |-> TRUE, executed |-> cmd, rc |-> tool.rc,
          error |-> [kind |-> stage_error(stage), value |-> cmd,
                     return_code |-> tool.rc, stdout |-> tool.out,
                     stderr |-> tool.err]]
    ELSE IF stage = "animated_gif" /\ \A f \in fs : f.path # cmd.inputs[1]
    THEN [tag |-> "raised", invoked |-> TRUE, executed |-> cmd, rc |-> tool.rc,
          error |-> [kind |-> "OSError", value |-> cmd.inputs[1], errno |-> "ENOENT"]]
    ELSE [tag |-> "returned", invoked |-> TRUE, executed |-> cmd, rc |-> tool.rc,
          ret |-> <<tool.rc, tool.out, tool.err>>]

\* one call of a stage method: nothing to do, a lookup that fails, or the
\* command built and run
call_stage(stage, info_, tool, fs) ==
    IF stage = "animated_png" /\ info_.animated = <<>>
    THEN [tag |-> "none", invoked |-> FALSE]
    ELSE IF stage_key_error(stage, info_) # ""
    THEN [tag |-> "raised", invoked |-> FALSE,
          error |-> stage_lookup_error(stage, info_)]
    ELSE run_stage_cmd(stage, stage_cmd(stage, info_), tool, fs)

\* ------------------------------------------------------------- process
\* the calls of BasicCard.process with the first two exchanged
process_calls_swapped ==
    <<"_cp_original", "_make_output_folders", "_make_copies", "_make_animation_copies">>

\* the calls of BasicCard.process with the static variants made first
process_calls_copies_first ==
    <<"_make_copies", "_make_output_folders", "_cp_original", "_make_animation_copies">>

\* the calls BasicCard.process makes, in order
process_calls ==
    <<"_make_output_folders", "_cp_original", "_make_copies", "_make_animation_copies">>

\* _make_copies of the card classes: the six static variants, in order
make_copies(card) ==
    <<"medium", "small", "jpg", "icon_small", "icon_medium", "icon_large">>

\* _make_animation_copies without the test for frames
make_animation_copies_unguarded(card) ==
    (IF card.card_class = "cardbacks" THEN <<"composite">> ELSE <<>>)
        \o <<"animated_png", "animated_gif", "mp4", "webm">>

\* _make_animation_copies of the card classes: nothing for a bundle without
\* frames; else the container, the loop and the two web encodes, card backs
\* compositing their frames first
make_animation_copies(card) ==
    IF card.info.animated = <<>> THEN <<>>
    ELSE (IF card.card_class = "cardbacks" THEN <<"composite">> ELSE <<>>)
            \o <<"animated_png", "animated_gif", "mp4", "webm">>

\* the steps one call of process runs
call_steps(call, card) ==
    CASE call = "_make_output_folders" -> <<"output_folders">>
      [] call = "_cp_original" -> <<"cp_original">>
      [] call = "_make_copies" -> make_copies(card)
      [] call = "_make_animation_copies" -> make_animation_copies(card)

\* the steps of process(output_dir) for a card whose stages all succeed
RECURSIVE steps_of(_, _)
steps_of(calls, card) ==
    IF calls = <<>> THEN <<>>
    ELSE call_steps(Head(calls), card) \o steps_of(Tail(calls), card)
process_steps(card) == steps_of(process_calls, card)

\* 'Finished processing %s:%s' % (self.name, self.locale)
finished_message(card) ==
    [text |-> "Finished processing %s:%s", name |-> card.name, locale |-> card.locale]

\* _composite_animation_frames of the card backs: one tool run that writes the
\* ff_ prefixed frames into animation_temp and records them in info['ff_out']
composite_out_in(output_dir, card) ==
    [i \in 1..Len(card.info.animated) |->
        [dir |-> output_path_in(output_dir, card, "animation_temp"),
         file |-> <<"f", "f", "_">> \o card.info.animated[i].file]]
composite_out(card) == composite_out_in(OutputDir, card)

\* ------------------------------------------------------------ the disk
\* the output files on disk: one record [path, holds] per path, holds naming
\* the step and the card that wrote the file and the files it was made from
made_from(step, card, inputs) == [made_by |-> step, card |-> card.name, from |-> inputs]
file_exists(fs, path) == \E f \in fs : f.path = path
write_file(fs, path, holds) ==
    {f \in fs : f.path # path} \cup {[path |-> path, holds |-> holds]}
remove_file(fs, path) == {f \in fs : f.path # path}

\* os.path.join(output_dir, self.card_class, self.locale)
locale_dir(card) == <<OutputDir, card.card_class, card.locale>>

\* the path of a directory read as the path of a file: its parent and its name
as_file(path) ==
    [dir |-> SubSeq(path, 1, Len(path) - 1), file |-> <<path[Len(path)]>>]

\* the directories os.makedirs makes on its way to the directory of an
\* output kind: the output directory, the class, the locale and, for the
\* icon kinds, icons
parent_dirs(card, kind) ==
    {<<OutputDir>>, <<OutputDir, card.card_class>>, locale_dir(card)}
        \cup (IF kind \in {"icons/small", "icons/medium", "icons/large"}
              THEN {locale_dir(card) \o <<"icons">>}
              ELSE {})

\* os.makedirs(path): the errno of the OSError it raises, "" when it creates
\* the directory; refused holds what the system refuses to create: the output
\* directory itself, or the directories of output kinds
makedirs_error(path, kind, ds, fs, refused) ==
    IF path \in ds \/ file_exists(fs, as_file(path)) THEN "EEXIST"
    ELSE IF OutputDir \in refused \/ kind \in refused THEN "EACCES"
    ELSE ""

\* os.makedirs(path): the directories on disk after the call.  It makes the
\* parents that are missing first, top down, and the directory last: when
\* the output directory is refused nothing is made, when the directory of
\* the kind is refused its parents stay
makedirs_made(card, kind, path, ds, fs, refused) ==
    IF path \in ds \/ file_exists(fs, as_file(path)) \/ OutputDir \in refused THEN ds
    ELSE IF kind \in refused THEN ds \cup parent_dirs(card, kind)
    ELSE ds \cup parent_dirs(card, kind) \cup {path}

\* "except OSError: pass" passing over the already-exists error only
oserror_passed_exists_only(errno) == errno = "EEXIST"

\* "except OSError: pass": the errors of os.makedirs that are passed over
oserror_passed(errno) == TRUE

\* self._info['output_paths'] = ... with the frames of the bundle forgotten
set_output_paths_fresh(info_, paths) ==
    [static |-> info_.static, animated |-> <<>>, output_paths |-> paths]

\* self._info['output_paths'] = ...: the other entries of self._info stay,
\* ff_out of an earlier call of process on the instance among them
set_output_paths(info_, paths) ==
    [k \in DOMAIN info_ \cup {"output_paths"} |->
        IF k = "output_paths" THEN paths ELSE info_[k]]

\* the loop of _make_output_folders over the configured output kinds
RECURSIVE makedirs_loop(_, _, _, _, _, _)
makedirs_loop(card, outputs, paths, ds, fs, refused) ==
    IF outputs = <<>> THEN [tag |-> "done", paths |-> paths, dirs |-> ds]
    ELSE LET kind == Head(outputs)
             path == output_path(card, kind)
             errno == makedirs_error(path, kind, ds, fs, refused)
             recorded == [k \in DOMAIN paths \cup {kind} |->
                             IF k = kind THEN path ELSE paths[k]]
         IN  IF errno # "" /\ ~oserror_passed(errno)
             THEN [tag |-> "raised", paths |-> paths,
                   dirs |-> makedirs_made(card, kind, path, ds, fs, refused),
                   error |-> [kind |-> "OSError", value |-> path]]
             ELSE makedirs_loop(card, Tail(outputs), recorded,
                                makedirs_made(card, kind, path, ds, fs, refused),
                                fs, refused)

\* the tool of the command asks before it writes its output: _make_mp4_cmd
\* and _make_webm_cmd call ffmpeg without -y, and ffmpeg asks on its stdin
\* before it writes over a file that exists.  run_cmd gives the tool the
\* stdin of the caller: with the answer y there the file is overwritten and
\* the tool exits 0, without it the file stays and the tool exits non-zero
asks_to_overwrite(stage, cmd, fs) ==
    stage \in {"mp4", "webm"} /\ file_exists(fs, cmd.output)

\* the tool of the command reads a file the pipeline itself has to have
\* written, and the file is not on the disk: the container the animated loop
\* stage converts
input_missing(stage, cmd, fs) ==
    stage = "animated_gif" /\ ~file_exists(fs, cmd.inputs[1])

\* the command cannot be carried out on the disk (ds, fs): the directory of
\* its output does not exist, or its input was never written
cannot_convert(stage, cmd, ds, fs) ==
    \/ cmd.output.dir \notin ds
    \/ input_missing(stage, cmd, fs)

\* what the tool of a stage can answer: a tool that cannot carry out its
\* command does not exit 0
ToolAnswers(outcomes, stage, info_, ds, fs) ==
    {t \in outcomes :
        (stage_key_error(stage, info_) = ""
            /\ cannot_convert(stage, stage_cmd(stage, info_), ds, fs)) => t.rc # 0}

\* os.remove(input_) of the animated loop stage, placed before the test of
\* the exit code
container_removed_first(stage, r) == stage = "animated_gif" /\ r.invoked

\* os.remove(input_) of the animated loop stage is reached
container_removed(stage, r) == stage = "animated_gif" /\ r.tag = "returned"

\* the disk after one call of a stage method: a tool that exits 0 has written
\* the output its command names
stage_files(stage, card, r, fs) ==
    LET written == IF r.invoked /\ r.rc = 0
                   THEN write_file(fs, r.executed.output,
                                   made_from(stage, card, r.executed.inputs))
                   ELSE fs
    IN  IF container_removed(stage, r)
        THEN remove_file(written, r.executed.inputs[1])
        ELSE written

\* the files the composite stage of a card back writes
RECURSIVE composite_files(_, _, _, _)
composite_files(card, frames, ff, fs) ==
    IF frames = <<>> THEN fs
    ELSE composite_files(card, Tail(frames), Tail(ff),
                         write_file(fs, Head(ff),
                                    made_from("composite", card, <<Head(frames)>>)))

\* a stage method called by process: r is what the call returned or raised
stage_step(step, card, info_, ds, fs, r) ==
    LET entry == [step |-> step, invoked |-> r.invoked,
                  rc |-> IF r.invoked THEN r.rc ELSE 0]
    IN  IF r.tag = "raised"
        THEN [tag |-> "raised", info |-> info_, dirs |-> ds,
              files |-> stage_files(step, card, r, fs), entry |-> entry,
              error |-> r.error]
        ELSE [tag |-> "done", info |-> info_, dirs |-> ds,
              files |-> stage_files(step, card, r, fs), entry |-> entry]

\* shutil.copy2(input_, output) of _cp_original: the file it writes is
\* inside output when output is a directory, else it is the file output
copy2_dst(card, info_, ds) ==
    LET output_ == output_path(card, "original")
    IN  IF output_ \in ds THEN fullpath(output_, info_.static.file)
        ELSE as_file(output_)

\* open(dst, 'wb') succeeds: the directory the file lies in exists
copy2_opens(card, ds) ==
    output_path(card, "original") \in ds \/ locale_dir(card) \in ds

\* open(dst, 'wb'): the file exists and is empty
copy2_opened(card, info_, ds, fs) ==
    write_file(fs, copy2_dst(card, info_, ds), made_from("cp_original", card, <<>>))

\* what the file holds after the copy has written its bytes.  Each copy
\* writes from the start of the file through its own descriptor: where
\* another copy has written since this one opened the file, the file ends up
\* with the bytes of this copy, or with bytes of both
copy2_holds(found, own) ==
    IF found.from = <<>> \/ found = own THEN {own}
    ELSE {own,
          [made_by |-> own.made_by, card |-> own.card, from |-> own.from \o found.from]}

\* one step of process(output_dir) on a card: whether it completed or raised,
\* and what it leaves in self._info and on the disk
process_step(step, card, outputs, info_, ds, fs, refused, tool) ==
    CASE step = "output_folders" ->
            \* _make_output_folders
            LET r == makedirs_loop(card, outputs, EmptyDict, ds, fs, refused)
                entry == [step |-> step, invoked |-> FALSE, rc |-> 0]
            IN  IF r.tag = "raised"
                THEN [tag |-> "raised", info |-> set_output_paths(info_, r.paths),
                      dirs |-> r.dirs, files |-> fs, entry |-> entry, error |-> r.error]
                ELSE [tag |-> "done", info |-> set_output_paths(info_, r.paths),
                      dirs |-> r.dirs, files |-> fs, entry |-> entry]
      [] step = "cp_original" ->
            \* _cp_original with no other process at work: shutil.copy2 opens
            \* the destination and writes it, or raises IOError
            LET output_ == output_path(card, "original")
                holds == made_from(step, card, <<info_.static>>)
                entry == [step |-> step, invoked |-> FALSE, rc |-> 0]
            IN  IF copy2_opens(card, ds)
                THEN [tag |-> "done", info |-> info_, dirs |-> ds,
                      files |-> write_file(copy2_opened(card, info_, ds, fs),
                                           copy2_dst(card, info_, ds), holds),
                      entry |-> entry]
                ELSE [tag |-> "raised", info |-> info_, dirs |-> ds, files |-> fs,
                      entry |-> entry,
                      error |-> [kind |-> "IOError", value |-> output_]]
      [] step = "composite" ->
            \* _composite_animation_frames of a card back
            LET entry == [step |-> step, invoked |-> TRUE, rc |-> tool.rc]
            IN  IF tool_failed(tool.rc)
                THEN [tag |-> "raised", info |-> info_, dirs |-> ds, files |-> fs,
                      entry |-> entry,
                      error |-> [kind |-> "MakeCompositeError", value |-> "composite",
                                 return_code |-> tool.rc, stdout |-> tool.out,
                                 stderr |-> tool.err]]
                ELSE [tag |-> "done",
                      info |-> [static |-> info_.static, animated |-> info_.animated,
                                output_paths |-> info_.output_paths,
                                ff_out |-> composite_out(card)],
                      dirs |-> ds,
                      files |-> composite_files(card, info_.animated, composite_out(card), fs),
                      entry |-> entry]
      [] step \in TenStages ->
            \* one of the ten stage methods of the base class
            stage_step(step, card, info_, ds, fs, call_stage(step, info_, tool, fs))

\* ---------------------------------------------------------------- pool
\* what an external tool answers in a pool run: success, or exit 1 with stderr
PoolToolOutcomes ==
    {[rc |-> 0, out |-> "so", err |-> ""], [rc |-> 1, out |-> "", err |-> "se"]}

\* what os.makedirs can be refused in the run of a pool, for a reason other
\* than the directory existing: nothing, the directory of every output kind,
\* or the output directory itself
MkdirFailures == {{}, Range(ConfigOutputs), {OutputDir}}

\* "if not processes: processes = config['processes']", the argument ignored
worker_count_config_only(arg, configured) == configured

\* "if not processes: processes = config['processes']"
worker_count(arg, configured) == IF arg = 0 THEN configured ELSE arg

\* the futures in the order execute_pool would wait on them, last one first
get_order_reversed(n) == [j \in 1..n |-> n + 1 - j]

\* [p.get() for p in results]: the futures in the order execute_pool waits on
get_order(n) == [j \in 1..n |-> j]

\* the lists get_card_instances can return
RECURSIVE InstanceLists(_)
InstanceLists(n) ==
    IF n = 0 THEN {<<>>}
    ELSE LET shorter == InstanceLists(n - 1)
         IN  shorter \cup
             {Append(l, c) : l \in {x \in shorter : Len(x) = n - 1},
                             c \in CardPool}

NoRepeat(l) == \A i \in 1..Len(l), j \in 1..Len(l) : i # j => l[i] # l[j]

\* the card classes execute_pool is asked for, in the order of the argument
CardTypes == <<"cards", "cardbacks">>

\* "for card_type in card_types: ... instances += obj.create_instances(...)":
\* the instances of a class follow those of the classes before it; the order
\* within a class is that of a dict, which is arbitrary
class_index(class) == CHOOSE k \in 1..Len(CardTypes) : CardTypes[k] = class
ClassOrdered(l) ==
    \A i \in 1..Len(l), j \in 1..Len(l) :
        i < j => class_index(l[i].card_class) <= class_index(l[j].card_class)

\* what the walk of a class's input folder finds: its bundles by card name,
\* for the cards l of the input
found_dict(l, class) ==
    LET of_class == {i \in 1..Len(l) : l[i].card_class = class}
    IN  [name \in {l[i].name : i \in of_class} |->
            (CHOOSE c \in Range(l) : c.card_class = class /\ c.name = name).info]

\* crawler returning what a walk would find although the directory is missing
crawler_result_any(exists, found) == found

\* crawler: "cards = {}", "if os.path.isdir(target_dir)", "return cards"
crawler_result(exists, found) == IF exists THEN found ELSE EmptyDict

\* create_instances of the card classes: one instance per bundle of the dict
\* of its class
create_instances(dicts, l) ==
    LET bundled(c) == c.name \in DOMAIN dicts[c.card_class]
    IN  SelectSeq(l, bundled)

Steps(c) == process_steps(instances[c])
NextStep(c) == Steps(c)[pos[c] + 1]
Running(w) == worker[w] # 0 /\ pos[worker[w]] < Len(Steps(worker[w]))

\* execute_pool is called: its arguments, the configuration and the input
\* folder, which exists or not
PoolInputs(configs) ==
    /\ UnitIdle
    /\ cpc = "idle"
    /\ isdir \in BOOLEAN
    /\ walked = <<>>
    /\ cards = EmptyDict
    /\ crawled = EmptyDict
    /\ config \in configs
    /\ mainpc = "start"
    /\ processes \in 0..MaxProcs
    /\ instances = <<>>
    /\ taskq = <<>>
    /\ worker = <<>>
    /\ info = <<>>
    /\ pos = <<>>
    /\ status = <<>>
    /\ trace = <<>>
    /\ result = <<>>
    /\ finished = <<>>
    /\ output = <<>>
    /\ raised = [tag |-> "none"]
    /\ dirs = {}
    /\ outfiles = {}
    /\ copying = {}
    /\ communicating = {}
    /\ denied \in MkdirFailures

PoolInit == PoolInputs({DefaultConfig})

\* execute_pool up to the creation of the pool: the default for processes,
\* get_card_instances (one crawl per class, then create_instances),
\* multiprocessing.Pool(processes)
ExecutePoolStart ==
    /\ mainpc = "start"
    /\ \E l \in {x \in InstanceLists(MaxCards) : NoRepeat(x) /\ ClassOrdered(x)} :
          LET dicts == [class \in Range(CardTypes) |->
                           crawler_result(isdir, found_dict(l, class))]
              made == create_instances(dicts, l)
              n == Len(made)
          IN  /\ processes' = worker_count(processes, config.processes)
              /\ crawled' = dicts
              /\ instances' = made
              /\ worker' = [w \in 1..worker_count(processes, config.processes) |-> 0]
              /\ info' = [c \in 1..n |-> made[c].info]
              /\ pos' = [c \in 1..n |-> 0]
              /\ status' = [c \in 1..n |-> "new"]
              /\ trace' = [c \in 1..n |-> <<>>]
              /\ result' = [c \in 1..n |-> [tag |-> "pending"]]
              /\ mainpc' = IF made = <<>> THEN "collect" ELSE "submit"
    /\ UNCHANGED <<config, taskq, finished, output, raised, dirs, outfiles,
                   copying, communicating, denied,
                   cpc, isdir, walked, cards, unit>>

\* pool.apply_async(_execute_pool, args=(instance, output_path)) for the next
\* instance of the list
Submit ==
    /\ mainpc = "submit"
    /\ LET c == CHOOSE i \in 1..Len(instances) :
                    status[i] = "new" /\ \A j \in 1..(i - 1) : status[j] # "new"
       IN  /\ taskq' = Append(taskq, c)
           /\ status' = [status EXCEPT ![c] = "queued"]
           /\ mainpc' = IF c = Len(instances) THEN "collect" ELSE "submit"
    /\ UNCHANGED <<config, processes, instances, worker, info, pos, trace, result,
                   finished, output, raised, dirs, outfiles,
                   copying, communicating, denied, crawlVars, unit>>

\* an idle worker takes the oldest task: _execute_pool calls instance.process
TakeTask(w) ==
    /\ worker[w] = 0
    /\ taskq # <<>>
    /\ worker' = [worker EXCEPT ![w] = Head(taskq)]
    /\ taskq' = Tail(taskq)
    /\ status' = [status EXCEPT ![Head(taskq)] = "running"]
    /\ UNCHANGED <<config, mainpc, processes, instances, info, pos, trace, result,
                   finished, output, raised, dirs, outfiles,
                   copying, communicating, denied, crawlVars, unit>>

\* the step of card c completed: process goes on
StepDone(w, c, entry) ==
    /\ pos' = [pos EXCEPT ![c] = @ + 1]
    /\ trace' = [trace EXCEPT ![c] = Append(@, entry)]
    /\ UNCHANGED <<worker, status, result, finished>>

\* the exception classes of exceptions.py: CardConvertError and its
\* sub-classes, which the stages and the composite stage raise
CardConvertErrors ==
    {"CardConvertError"} \cup {stage_error(stage) : stage \in TenStages}
        \cup {"MakeCompositeError"}

\* the main process rebuilds the exception a worker sent from its class and
\* its args.  CardConvertError.__init__(value, return_code, stdout, stderr)
\* does not call Exception.__init__, so args is empty and the call of the
\* class without arguments raises TypeError; the exceptions of the library
\* (IOError, KeyError, IndexError, OSError) are rebuilt
rebuilt(error) == error.kind \notin CardConvertErrors

\* the thread of the pool that reads the workers' results has died: it met a
\* result it could not rebuild, and what workers send since is lost as well
HandlerDead(results) == \E c \in DOMAIN results : results[c].tag = "lost"

\* a worker sends the outcome of the process of card c: the result handler
\* sets the card's AsyncResult, unless it has died or dies on this outcome
delivered(results, c, sent) ==
    IF HandlerDead(results) \/ (sent.tag = "error" /\ ~rebuilt(sent.error))
    THEN [results EXCEPT ![c] = [tag |-> "lost", sent |-> sent]]
    ELSE [results EXCEPT ![c] = sent]

\* the step of card c raised: nothing catches it in process or _execute_pool,
\* the worker sends the exception to the main process
StepRaised(w, c, entry, error) ==
    /\ pos' = [pos EXCEPT ![c] = @ + 1]
    /\ trace' = [trace EXCEPT ![c] = Append(@, entry)]
    /\ status' = [status EXCEPT ![c] = "Failed"]
    /\ result' = delivered(result, c, [tag |-> "error", error |-> error])
    /\ finished' = Append(finished, c)
    /\ worker' = [worker EXCEPT ![w] = 0]

\* worker w has run one step of the process of its card, with outcome r
Stepped(w, r) ==
    LET c == worker[w]
    IN  /\ info' = [info EXCEPT ![c] = r.info]
        /\ dirs' = r.dirs
        /\ outfiles' = r.files
        /\ IF r.tag = "raised"
           THEN StepRaised(w, c, r.entry, r.error)
           ELSE StepDone(w, c, r.entry)
        /\ UNCHANGED <<config, mainpc, processes, instances, taskq, output, raised,
                       copying, denied, crawlVars, unit>>

\* _make_output_folders: every os.makedirs either creates the directory or
\* raises OSError, which is passed over; the path is recorded either way
MakeOutputFolders(w) ==
    /\ Running(w)
    /\ NextStep(worker[w]) = "output_folders"
    /\ LET c == worker[w]
       IN  Stepped(w, process_step("output_folders", instances[c], config.outputs,
                                   info[c], dirs, outfiles, denied,
                                   [rc |-> 0, out |-> "", err |-> ""]))
    /\ UNCHANGED communicating

\* the copy of card c that is in flight
Copying(c) == {k \in copying : k.card = c}

\* the file shutil.copy2 writes is one that the copies of other cards write
\* too: the directory original does not exist, so the file is the path
\* <output_dir>/<class>/<locale>/original itself.  Inside the directory the
\* file has the name of the card's own static file, which no other card of
\* the class and locale has
copy2_shared(card, ds) ==
    output_path(card, "original") \notin ds /\ locale_dir(card) \in ds

\* _cp_original.  shutil.copy2 raises IOError when neither the directory
\* original nor its parent exists.  Else it opens the file, which truncates
\* it, and writes it: the copy to a file of the card's own is taken as one
\* step, the copy to a file other cards write stops after open(dst, 'wb')
CpOriginal(w) ==
    /\ Running(w)
    /\ NextStep(worker[w]) = "cp_original"
    /\ Copying(worker[w]) = {}
    /\ LET c == worker[w]
       IN  IF copy2_shared(instances[c], dirs)
           THEN /\ outfiles' = copy2_opened(instances[c], info[c], dirs, outfiles)
                /\ copying' = copying \cup
                                 {[card |-> c,
                                   path |-> copy2_dst(instances[c], info[c], dirs)]}
                /\ UNCHANGED <<config, mainpc, processes, instances, taskq, worker,
                               info, pos, status, trace, result, finished, output,
                               raised, dirs, denied, crawlVars, unit>>
           ELSE Stepped(w, process_step("cp_original", instances[c], config.outputs,
                                        info[c], dirs, outfiles, {},
                                        [rc |-> 0, out |-> "", err |-> ""]))
    /\ UNCHANGED communicating

\* the rest of shutil.copy2: the bytes of the static file are written to the
\* file that was opened
CpOriginalWrite(w) ==
    /\ worker[w] # 0
    /\ Copying(worker[w]) # {}
    /\ LET c == worker[w]
           k == CHOOSE x \in copying : x.card = c
           own == made_from("cp_original", instances[c], <<info[c].static>>)
       IN  /\ IF file_exists(outfiles, k.path)
              THEN \E holds \in copy2_holds(
                                   (CHOOSE f \in outfiles : f.path = k.path).holds, own) :
                       outfiles' = write_file(outfiles, k.path, holds)
              ELSE outfiles' = outfiles
           /\ copying' = copying \ {k}
           /\ StepDone(w, c, [step |-> "cp_original", invoked |-> FALSE, rc |-> 0])
           /\ UNCHANGED <<config, mainpc, processes, instances, taskq, info, output,
                          raised, dirs, communicating, denied, crawlVars, unit>>

\* the stage method reaches run_cmd: there is something to convert and the
\* lookups of its input and output succeed
runs_tool(stage, info_) ==
    /\ ~(stage = "animated_png" /\ info_.animated = <<>>)
    /\ stage_key_error(stage, info_) = ""

\* a step of process that runs an external tool, up to run_cmd
StartTool(w, c) ==
    /\ communicating' = communicating \cup {c}
    /\ UNCHANGED <<config, mainpc, processes, instances, taskq, worker, info, pos,
                   status, trace, result, finished, output, raised, dirs, outfiles,
                   copying, denied, crawlVars, unit>>

\* one of the ten stage methods of the base class, up to run_cmd: the method
\* returns at once when it has nothing to convert, raises when a lookup
\* fails, and else builds its command and starts the tool with
\* subprocess.Popen
RunStage(w) ==
    /\ Running(w)
    /\ NextStep(worker[w]) \in TenStages
    /\ worker[w] \notin communicating
    /\ LET c == worker[w]
           stage == NextStep(c)
       IN  IF runs_tool(stage, info[c])
           THEN StartTool(w, c)
           ELSE /\ Stepped(w, process_step(stage, instances[c], config.outputs,
                                           info[c], dirs, outfiles, {},
                                           [rc |-> 0, out |-> "", err |-> ""]))
                /\ UNCHANGED communicating

\* _composite_animation_frames of a card back, up to the start of its tool
Composite(w) ==
    /\ Running(w)
    /\ NextStep(worker[w]) = "composite"
    /\ worker[w] \notin communicating
    /\ StartTool(w, worker[w])

\* what the tool of a step can answer
PoolToolAnswers(step, info_, ds, fs) ==
    IF step = "composite" THEN PoolToolOutcomes
    ELSE ToolAnswers(PoolToolOutcomes, step, info_, ds, fs)

\* proc.communicate() returns: the tool has exited with (rc, out, err), and
\* has written its output when it exits 0; the method tests the exit code
\* and raises its error or returns, the animated loop stage removing the
\* container before it returns.  While the method waited, the other workers
\* and the main process went on
Communicate(w) ==
    /\ worker[w] # 0
    /\ worker[w] \in communicating
    /\ LET c == worker[w]
           step == NextStep(c)
       IN  \E tool \in PoolToolAnswers(step, info[c], dirs, outfiles) :
              Stepped(w, process_step(step, instances[c], config.outputs,
                                      info[c], dirs, outfiles, {}, tool))
    /\ communicating' = communicating \ {worker[w]}

\* process returns its message and the worker sends it to the main process
Finish(w) ==
    /\ worker[w] # 0
    /\ pos[worker[w]] = Len(Steps(worker[w]))
    /\ LET c == worker[w]
       IN  /\ status' = [status EXCEPT ![c] = "Done"]
           /\ result' = delivered(result, c,
                                 [tag |-> "ok", value |-> finished_message(instances[c])])
           /\ finished' = Append(finished, c)
           /\ worker' = [worker EXCEPT ![w] = 0]
    /\ UNCHANGED <<config, mainpc, processes, instances, taskq, info, pos, trace,
                   output, raised, dirs, outfiles, copying, communicating, denied, crawlVars, unit>>

\* the future execute_pool is waiting on
Awaited == get_order(Len(instances))[Len(output) + 1]

\* p.get() of the next future returns the card's message; p.get() has no
\* timeout, so it blocks for as long as the AsyncResult is not set
Collect ==
    /\ mainpc = "collect"
    /\ Len(output) < Len(instances)
    /\ result[Awaited].tag = "ok"
    /\ output' = Append(output, result[Awaited].value)
    /\ UNCHANGED <<config, mainpc, processes, instances, taskq, worker, info, pos,
                   status, trace, result, finished, raised, dirs, outfiles,
                   copying, communicating, denied,
                   crawlVars, unit>>

\* p.get() of the next future re-raises the exception of the card's process;
\* nothing in execute_pool catches it
CollectRaise ==
    /\ mainpc = "collect"
    /\ Len(output) < Len(instances)
    /\ result[Awaited].tag = "error"
    /\ mainpc' = "raised"
    /\ raised' = [tag |-> "error", error |-> result[Awaited].error]
    /\ UNCHANGED <<config, processes, instances, taskq, worker, info, pos, status,
                   trace, result, finished, output, dirs, outfiles,
                   copying, communicating, denied, crawlVars, unit>>

\* return output
Return ==
    /\ mainpc = "collect"
    /\ Len(output) = Len(instances)
    /\ mainpc' = "returned"
    /\ UNCHANGED <<config, processes, instances, taskq, worker, info, pos, status,
                   trace, result, finished, output, raised, dirs, outfiles,
                   copying, communicating, denied,
                   crawlVars, unit>>

Next ==
    \/ ExecutePoolStart
    \/ Submit
    \/ \E w \in DOMAIN worker : TakeTask(w)
    \/ \E w \in DOMAIN worker : MakeOutputFolders(w)
    \/ \E w \in DOMAIN worker : CpOriginal(w)
    \/ \E w \in DOMAIN worker : CpOriginalWrite(w)
    \/ \E w \in DOMAIN worker : RunStage(w)
    \/ \E w \in DOMAIN worker : Composite(w)
    \/ \E w \in DOMAIN worker : Communicate(w)
    \/ \E w \in DOMAIN worker : Finish(w)
    \/ Collect
    \/ CollectRaise
    \/ Return

Spec == PoolInit /\ [][Next]_vars

\* execute_pool given any of the configurations
ConfigInit == PoolInputs(Configs)
ConfigSpec == ConfigInit /\ [][Next]_vars

\* --------------------------------------------- one stage method on its own
\* what an external tool can answer
UnitToolOutcomes == [rc : {0, 1, 2}, out : {"", "so"}, err : {"", "se"}]

\* self._info of a card when a stage method is called: after
\* _make_output_folders, and for a card back after the composite stage too
StageInfos ==
    {[static |-> c.info.static, animated |-> c.info.animated,
      output_paths |-> [o \in Range(ConfigOutputs) |-> output_path_in(d, c, o)]]
        : c \in CardPool, d \in OutputDirs}
    \cup
    {[static |-> c.info.static, animated |-> c.info.animated,
      output_paths |-> [o \in Range(ConfigOutputs) |-> output_path_in(d, c, o)],
      ff_out |-> composite_out_in(d, c)]
        : c \in {x \in CardPool : x.card_class = "cardbacks"}, d \in OutputDirs}

\* the disk a stage method is called on, as the steps of process before it
\* leave it: the animated loop stage finds the container the animated
\* container stage wrote, which for a card without frames wrote nothing
StageDisks(stage, card, info_) ==
    IF stage = "animated_gif" /\ info_.animated # <<>>
    THEN {{[path |-> [dir |-> info_.output_paths["animated"], file |-> info_.static.file],
            holds |-> made_from("animated_png", card, info_.animated)]}}
    ELSE {{}}

\* a stage method is called on a card, whether the card has frames or not
StageInit ==
    /\ CrawlIdle
    /\ PoolIdle
    /\ \E s \in TenStages, c \in CardPool, i \in StageInfos :
          /\ i.static = c.info.static
          /\ \E fs \in StageDisks(s, c, i) :
                unit = [pc |-> "ready", stage |-> s, card |-> c, info |-> i,
                        files |-> fs]

\* what the tool of the stage can answer on the disk fs: a tool whose input
\* was never written does not exit 0
StageToolAnswers(stage, info_, fs) ==
    {t \in UnitToolOutcomes :
        (stage_key_error(stage, info_) = ""
            /\ input_missing(stage, stage_cmd(stage, info_), fs)) => t.rc # 0}

\* the unit after the call of its stage method with outcome r: the disk is
\* what the tool and the method leave, before is the disk of the call
stage_called(u, tool, r) ==
    [pc |-> "called", stage |-> u.stage, card |-> u.card, info |-> u.info,
     before |-> u.files, files |-> stage_files(u.stage, u.card, r, u.files),
     tool |-> tool, outcome |-> r]

\* the stage method runs; the tool, if it is run, answers (rc, out, err) and
\* has written its output when it exits 0
StageCall ==
    /\ unit.pc = "ready"
    /\ \E tool \in StageToolAnswers(unit.stage, unit.info, unit.files) :
          unit' = stage_called(unit, tool,
                               call_stage(unit.stage, unit.info, tool, unit.files))
    /\ UNCHANGED <<crawlVars, poolVars>>

StageNext == StageCall

StageSpec == StageInit /\ [][StageNext]_vars

\* --------------------------------- process called on one card, and again
\* how often process is run on the same input and the same disk
MaxRuns == 2

\* the stage whose tool exits 1 in every run ("none": every tool exits 0)
ToolPlans == TenStages \cup {"composite", "none"}

\* the sets of output kinds whose directory the system refuses to create
CardMkdirFailures ==
    {{}, {"original"}, {"animated"}, Range(ConfigOutputs), {OutputDir}}

\* what the tool of a step can answer under a plan, on the disk (ds, fs) the
\* step finds: the tool of the plan exits 1, and so does a tool that cannot
\* carry out its command on that disk; a tool that asks before it writes
\* over the file an earlier run left exits 0 or 1, as the stdin of the
\* caller answers it; every other tool exits 0
plan_answers(plan, step, info_, ds, fs) ==
    LET ok == [rc |-> 0, out |-> "so", err |-> ""]
        failed == [rc |-> 1, out |-> "", err |-> "se"]
    IN  IF step = plan THEN {failed}
        ELSE IF step \notin TenStages \/ stage_key_error(step, info_) # "" THEN {ok}
        ELSE IF cannot_convert(step, stage_cmd(step, info_), ds, fs) THEN {failed}
        ELSE IF asks_to_overwrite(step, stage_cmd(step, info_), fs) THEN {ok, failed}
        ELSE {ok}

\* a new instance of the card is about to run process(output_dir)
card_run(card, refused, plan, n, runs) ==
    [pc |-> "process", card |-> card, refused |-> refused, plan |-> plan,
     run |-> n, before |-> dirs, info |-> card.info, pos |-> 0, trace |-> <<>>,
     outcome |-> [tag |-> "none"], runs |-> runs]

CardInit ==
    /\ CrawlIdle
    /\ DispatcherIdle
    /\ config \in Configs
    /\ dirs = {}
    /\ outfiles = {}
    /\ copying = {}
    /\ communicating = {}
    /\ denied = {}
    /\ \E card \in CardPool, refused \in CardMkdirFailures, plan \in ToolPlans :
          unit = card_run(card, refused, plan, 1, <<>>)

\* what is kept of a run that ended
run_record(u, outcome) ==
    [before |-> u.before, outcome |-> outcome, info |-> u.info, trace |-> u.trace]

\* the step of process the card is at
NextCardStep == process_steps(unit.card)[unit.pos + 1]

\* the unit after a step that raised: the exception ends the run
card_raised(u, error) ==
    [u EXCEPT !.pc = "raised", !.outcome = [tag |-> "error", error |-> error],
              !.runs = Append(@, run_record(u, [tag |-> "error", error |-> error]))]

\* the card has run one step of process, with outcome r
CardStepped(r) ==
    /\ dirs' = r.dirs
    /\ outfiles' = r.files
    /\ unit' = IF r.tag = "raised"
               THEN card_raised([unit EXCEPT !.info = r.info, !.pos = @ + 1,
                                             !.trace = Append(@, r.entry)],
                                r.error)
               ELSE [unit EXCEPT !.info = r.info, !.pos = @ + 1,
                                 !.trace = Append(@, r.entry)]

\* the next step of process
CardStep ==
    /\ unit.pc = "process"
    /\ unit.pos < Len(process_steps(unit.card))
    /\ \E tool \in plan_answers(unit.plan, NextCardStep, unit.info, dirs, outfiles) :
          CardStepped(process_step(NextCardStep, unit.card, config.outputs, unit.info,
                                   dirs, outfiles, unit.refused, tool))
    /\ UNCHANGED <<crawlVars, config, mainpc, processes, instances, taskq, worker,
                   info, pos, status, trace, result, finished, output, raised,
                   copying, communicating, denied>>

\* return 'Finished processing %s:%s' % (self.name, self.locale)
CardReturn ==
    /\ unit.pc = "process"
    /\ unit.pos = Len(process_steps(unit.card))
    /\ LET o == [tag |-> "ok", value |-> finished_message(unit.card)]
       IN  unit' = [unit EXCEPT !.pc = "returned", !.outcome = o,
                                !.runs = Append(@, run_record(unit, o))]
    /\ UNCHANGED <<crawlVars, poolVars>>

\* the same input is converted again: a new instance, the disk as it was left
CardRerun ==
    /\ unit.pc \in {"returned", "raised"}
    /\ unit.run < MaxRuns
    /\ unit' = card_run(unit.card, unit.refused, unit.plan, unit.run + 1, unit.runs)
    /\ UNCHANGED <<crawlVars, poolVars>>

CardNext == CardStep \/ CardReturn \/ CardRerun

CardSpec == CardInit /\ [][CardNext]_vars

\* ------------------------------------------------- dispatcher: claims
Cards == DOMAIN instances
Settled(c) == status[c] \in {"Done", "Failed"}

\* the typed errors of the stages (exceptions.py)
StageErrors ==
    {"MakeMediumCopyError", "MakeSmallCopyError", "MakeJpgCopyError",
     "MakeSmallIconError", "MakeMediumIconError", "MakeLargeIconError",
     "MakeAnimatedPNGError", "MakeAnimatedGIFError", "MakeMP4Error", "MakeWEBMError",
     "MakeCompositeError"}

\* what the process of card c ended with and its worker sent, whether the
\* main process received it or not
Outcome(c) == IF result[c].tag = "lost" THEN result[c].sent ELSE result[c]

\* the cards that failed so far failed with a stage error
OnlyStageErrors ==
    \A c \in Cards : Outcome(c).tag = "error" => Outcome(c).error.kind \in StageErrors

\* p.get() blocks for ever: execute_pool can neither take the result it waits
\* on nor return, no worker is running a card and no card is queued
Blocked ==
    /\ mainpc = "collect"
    /\ taskq = <<>>
    /\ \A w \in DOMAIN worker : worker[w] = 0
    /\ ~ENABLED (Collect \/ CollectRaise \/ Return)

\* C1 as claimed: when the cards that fail fail with a stage error,
\* execute_pool returns, it does not raise and it is not blocked for ever,
\* and what it returns has one entry per card, in submission order: the error
\* object of a card that failed, the completion message of every other card.
C1_ExecutePoolReturnsEveryOutcome ==
    OnlyStageErrors =>
        /\ mainpc # "raised"
        /\ ~Blocked
        /\ mainpc = "returned" =>
              /\ Len(output) = Len(instances)
              /\ \A c \in Cards :
                    \/ Outcome(c).tag = "ok"
                          /\ output[c] = finished_message(instances[c])
                    \/ Outcome(c).tag = "error" /\ output[c] = Outcome(c).error

\* C2: whatever the interleaving of the workers, the entries execute_pool has
\* collected are the completion messages of the first cards submitted, in
\* that order, and it returns one entry per card.
C2_ResultsInSubmissionOrder ==
    /\ Len(output) <= Len(instances)
    /\ \A j \in 1..Len(output) : output[j] = finished_message(instances[j])
    /\ mainpc = "returned" => Len(output) = Len(instances)

\* C2 witness: execute_pool returned although the card submitted second
\* completed first
C2_Witness ==
    /\ mainpc = "returned"
    /\ Len(instances) = 2
    /\ finished = <<2, 1>>
    /\ output[1] # output[2]

\* C3 as claimed: execute_pool is left, by return or by an exception, only
\* after every submitted card has produced its result (Done or Failed),
\* also when another card has failed: no card is still queued or running
\* when the dispatcher stops waiting.
C3_LeftOnlyAfterAllResults ==
    mainpc \in {"returned", "raised"} => \A c \in Cards : Settled(c)

\* execute_pool was left by the IOError of the first card's _cp_original
\* while the second card was still in the queue
C3_LeftWithCardQueued ==
    /\ mainpc = "raised"
    /\ raised.error.kind = "IOError"
    /\ Len(instances) = 2
    /\ status = <<"Failed", "queued">>

\* C4: a tool that exits non-zero ends the card: the failing step is the last
\* step that ran, the card is Failed and its result is an error, not a message.
C4_ToolFailureEndsTheCard ==
    \A c \in Cards :
        \A i \in 1..Len(trace[c]) :
            (trace[c][i].invoked /\ trace[c][i].rc # 0) =>
                /\ i = Len(trace[c])
                /\ status[c] = "Failed"
                /\ Outcome(c).tag = "error"

\* C4 witness: the medium copy failed, so small copy, icons and animation
\* never ran for a card that has frames
C4_Witness ==
    \E c \in Cards :
        /\ instances[c].info.animated # <<>>
        /\ Len(trace[c]) = 3
        /\ trace[c][3] = [step |-> "medium", invoked |-> TRUE, rc |-> 1]
        /\ status[c] = "Failed"
        /\ Outcome(c).tag = "error"
        /\ Outcome(c).error.kind = "MakeMediumCopyError"
        /\ Outcome(c).error.return_code = 1

StaticSteps == {"medium", "small", "jpg", "icon_small", "icon_medium", "icon_large"}
AnimationSteps == {"composite", "animated_png", "animated_gif", "mp4", "webm"}
PhaseOf(step) ==
    CASE step = "output_folders" -> 1
      [] step = "cp_original" -> 2
      [] step \in StaticSteps -> 3
      [] step \in AnimationSteps -> 4
StepsRun(c) == {trace[c][i].step : i \in 1..Len(trace[c])}

\* C6: the steps of one process call run in the order folders, original,
\* static variants, animation variants, none twice and none before its
\* predecessor; one worker at a time runs a card; the completion message is
\* the result only of a card all of whose stages ran without error.
C6_StagesInOrder ==
    /\ \A w1 \in DOMAIN worker, w2 \in DOMAIN worker :
          (w1 # w2 /\ worker[w1] # 0) => worker[w1] # worker[w2]
    /\ \A c \in Cards :
          LET t == trace[c]
          IN  /\ \A i \in 1..Len(t), j \in 1..Len(t) :
                    i < j => /\ PhaseOf(t[i].step) <= PhaseOf(t[j].step)
                             /\ t[i].step # t[j].step
              /\ \A i \in 1..Len(t) :
                    /\ PhaseOf(t[i].step) <= i
                    /\ i <= 2 => PhaseOf(t[i].step) = i
                    /\ PhaseOf(t[i].step) = 4 => StaticSteps \subseteq StepsRun(c)
              /\ Outcome(c).tag = "ok" =>
                    /\ Outcome(c).value = [text |-> "Finished processing %s:%s",
                                          name |-> instances[c].name,
                                          locale |-> instances[c].locale]
                    /\ {"output_folders", "cp_original"} \cup StaticSteps
                          \subseteq StepsRun(c)
                    /\ instances[c].info.animated # <<>> =>
                          {"animated_png", "animated_gif", "mp4", "webm"}
                             \subseteq StepsRun(c)
                    /\ \A i \in 1..Len(t) : t[i].rc = 0
                    /\ status[c] = "Done"
              /\ status[c] = "Done" => Outcome(c).tag = "ok"

\* C6 witness: a card with frames is Done after all four phases
C6_Witness ==
    \E c \in Cards :
        /\ status[c] = "Done"
        /\ instances[c].info.animated # <<>>
        /\ trace[c][1].step = "output_folders"
        /\ trace[c][2].step = "cp_original"
        /\ trace[c][Len(trace[c])].step = "webm"

AnimationErrors ==
    {"MakeAnimatedPNGError", "MakeAnimatedGIFError", "MakeMP4Error", "MakeWEBMError",
     "MakeCompositeError"}

\* C7: for a card without frames no animation stage runs a tool, its result
\* is never an animation error, and it is Done right after the last static
\* variant.
C7_NoFramesNoAnimationStage ==
    \A c \in Cards :
        instances[c].info.animated = <<>> =>
            /\ \A i \in 1..Len(trace[c]) :
                  ~(trace[c][i].step \in AnimationSteps /\ trace[c][i].invoked)
            /\ Outcome(c).tag = "error" => Outcome(c).error.kind \notin AnimationErrors
            /\ status[c] = "Done" =>
                  /\ trace[c][Len(trace[c])].step = "icon_large"
                  /\ StepsRun(c) \cap AnimationSteps = {}

\* C7 witness: a card without frames is Done
C7_Witness ==
    \E c \in Cards :
        /\ instances[c].info.animated = <<>>
        /\ status[c] = "Done"
        /\ StaticSteps \subseteq StepsRun(c)

\* C11: crawler called on a directory that does not exist returns an empty
\* mapping and raises nothing; execute_pool over a missing input folder then
\* has no instance, submits nothing, starts no card and returns the empty
\* list without raising.
C11_MissingFolderNoCards ==
    /\ (cpc = "returned" /\ ~isdir) => (DOMAIN crawled = {} /\ walked = <<>>)
    /\ (mainpc \notin {"idle", "start"} /\ ~isdir) =>
          /\ DOMAIN crawled = {"cards", "cardbacks"}
          /\ \A class \in DOMAIN crawled : DOMAIN crawled[class] = {}
          /\ instances = <<>>
          /\ taskq = <<>>
          /\ finished = <<>>
          /\ \A w \in DOMAIN worker : worker[w] = 0
          /\ mainpc \in {"collect", "returned"}
          /\ raised.tag = "none"
          /\ output = <<>>

\* C11 witness: execute_pool returned from a run over a missing input folder
C11_Witness ==
    /\ ~isdir
    /\ mainpc = "returned"
    /\ output = <<>>
    /\ DOMAIN crawled = {"cards", "cardbacks"}

\* the steps of process that are stage methods: each calls _get_input_output
C12_Readers ==
    {"medium", "small", "jpg", "icon_small", "icon_medium", "icon_large",
     "animated_png", "animated_gif", "mp4", "webm"}

\* a static or animation stage of card c has been called: it has ended, or
\* it has read its paths, started its tool and waits for it
C12_HasRead(c) ==
    \/ \E i \in 1..Len(trace[c]) : trace[c][i].step \in C12_Readers
    \/ c \in communicating /\ NextStep(c) \in C12_Readers

\* C12: whenever a static or animation stage of a card has been called,
\* _make_output_folders was the first step of that card and had completed,
\* and output_paths holds, for every output kind configured for the class,
\* the directory <output_dir>/<card_class>/<locale>/<kind>.
C12_OutputPathsPopulatedBeforeRead ==
    \A c \in Cards :
        C12_HasRead(c) =>
                /\ trace[c] # <<>>
                /\ trace[c][1].step = "output_folders"
                /\ "output_paths" \in DOMAIN info[c]
                /\ DOMAIN info[c].output_paths =
                      {config.outputs[k] : k \in 1..Len(config.outputs)}
                /\ \A o \in DOMAIN info[c].output_paths :
                      info[c].output_paths[o] =
                         <<OutputDir, instances[c].card_class, instances[c].locale, o>>

\* C12 witness: a card with frames whose static stages and animated loop
\* stage all read their output directory and ran their tool
C12_Witness ==
    \E c \in Cards :
        /\ \E i \in 1..Len(trace[c]) :
              trace[c][i].step = "animated_gif" /\ trace[c][i].invoked
        /\ \E i \in 1..Len(trace[c]) :
              trace[c][i].step = "medium" /\ trace[c][i].invoked

\* how often card c occurs in the sequence q
C14_Count(q, c) == Cardinality({i \in 1..Len(q) : q[i] = c})

\* every card is submitted at most once and run by at most one worker, once
C14_AtMostOnce ==
    \A c \in Cards :
        /\ C14_Count(taskq, c) <= 1
        /\ C14_Count(worker, c) <= 1
        /\ C14_Count(finished, c) <= 1
        /\ C14_Count(taskq, c) + C14_Count(worker, c) + C14_Count(finished, c) <= 1
        /\ status[c] = "new" <=>
              C14_Count(taskq, c) + C14_Count(worker, c) + C14_Count(finished, c) = 0
        /\ status[c] = "new" => trace[c] = <<>>
        /\ \A i \in 1..Len(trace[c]), j \in 1..Len(trace[c]) :
              i # j => trace[c][i].step # trace[c][j].step

\* the results p.get() has taken from the futures: those it returned and the
\* one it re-raised
C14_Collected == Len(output) + (IF mainpc = "raised" THEN 1 ELSE 0)

\* the run of execute_pool is over: it was left, or nothing more can happen
C14_Over == mainpc \in {"returned", "raised"} \/ Blocked

\* C14 as claimed: when the cards that fail fail with a stage error, every
\* discovered card is submitted exactly once and processed exactly once, and
\* when the run is over no card was omitted: each has been processed and
\* exactly one result has been collected for each.
C14_EveryCardExactlyOnce ==
    OnlyStageErrors =>
        /\ C14_AtMostOnce
        /\ mainpc \in {"collect", "returned", "raised"} =>
              \A c \in Cards : status[c] # "new"
        /\ C14_Over =>
              /\ \A c \in Cards : C14_Count(finished, c) = 1
              /\ C14_Collected = Len(instances)

\* what of C14 holds of a run that returns
C14_OnReturn ==
    /\ C14_AtMostOnce
    /\ mainpc \in {"collect", "returned", "raised"} => \A c \in Cards : status[c] # "new"
    /\ mainpc = "returned" =>
          /\ \A c \in Cards : C14_Count(finished, c) = 1
          /\ Len(output) = Len(instances)

\* the cards in processing
C15_InProcessing == {c \in Cards : status[c] = "running"}

\* at every moment: the pool has worker_count workers, no more cards are in
\* processing than there are workers, a card in processing is the card of
\* exactly one worker, and a card no worker has taken has run no step
C15_AtMostWorkerCount ==
    mainpc \notin {"idle", "start"} =>
        /\ Len(worker) = processes
        /\ Cardinality(C15_InProcessing) <= Len(worker)
        /\ \A c \in Cards :
              /\ status[c] = "running" <=> \E w \in DOMAIN worker : worker[w] = c
              /\ Cardinality({w \in DOMAIN worker : worker[w] = c}) <= 1
              /\ status[c] \in {"new", "queued"} => trace[c] = <<>>
              /\ c \in communicating => status[c] = "running"

\* in every step: the pool is created with the processes argument when one is
\* given and with config['processes'] otherwise, and keeps that size; a worker
\* leaves its card only when the card is Done or Failed; a step of a card is
\* run by the worker that holds the card, one step at a time; while the tool
\* of a step runs, no other step of the card begins or ends
C15_StartToFinish ==
    IF mainpc = "start"
    THEN Len(worker') = (IF processes # 0 THEN processes ELSE config.processes)
    ELSE /\ Len(worker') = Len(worker)
         /\ \A w \in DOMAIN worker :
               (worker[w] # 0 /\ worker'[w] # worker[w]) =>
                  /\ worker'[w] = 0
                  /\ status'[worker[w]] \in {"Done", "Failed"}
         /\ \A c \in Cards :
               trace'[c] # trace[c] =>
                  /\ \E w \in DOMAIN worker : worker[w] = c
                  /\ Len(trace'[c]) = Len(trace[c]) + 1
                  /\ SubSeq(trace'[c], 1, Len(trace[c])) = trace[c]
         /\ \A c \in communicating :
               /\ \E w \in DOMAIN worker : worker[w] = c
               /\ trace'[c] # trace[c] => c \notin communicating'
               /\ c \in communicating' => <<trace'[c], pos'[c], info'[c]>>
                                              = <<trace[c], pos[c], info[c]>>
         /\ \A c \in communicating' \ communicating : trace'[c] = trace[c]

\* C15: at most worker_count cards are in processing at any moment, where
\* worker_count is the processes argument when given and config['processes']
\* otherwise; a worker runs its card's pipeline from start to finish before it
\* takes another card, and the steps of one card run one after the other.
C15_BoundedWorkers == []C15_AtMostWorkerCount /\ [][C15_StartToFinish]_vars

\* C15 witness: a pool of one worker, asked for by the argument, is running
\* the steps of one card while the other card waits in the queue
C15_Witness ==
    /\ Len(worker) = 1
    /\ config.processes = 2
    /\ worker[1] # 0
    /\ Len(trace[worker[1]]) >= 3
    /\ taskq # <<>>
    /\ status[Head(taskq)] = "queued"

\* the file is below <output_dir>/<card_class>/<locale>/ of card c
C16_Under(c, f) ==
    /\ Len(f.path.dir) > 3
    /\ SubSeq(f.path.dir, 1, 3) =
          <<OutputDir, instances[c].card_class, instances[c].locale>>

\* the name of the file is derived from the static base name of card c: that
\* base name with some extension, or a composited frame of that base name
C16_NamedAfter(c, f) ==
    LET base == splitext_root(instances[c].info.static.file)
        name == splitext_root(f.path.file)
    IN  \/ name = base
        \/ /\ Len(name) > Len(base) + 3
           /\ SubSeq(name, 1, 3) = <<"f", "f", "_">>
           /\ SubSeq(name, 4, 3 + Len(base)) = base
           /\ name[4 + Len(base)] = "_"

\* step i of card c completed (it is not the step that raised)
C16_Completed(c, i) == ~(i = Len(trace[c]) /\ status[c] = "Failed")

\* step i of card c wrote a file
C16_Wrote(c, i) ==
    /\ C16_Completed(c, i)
    /\ trace[c][i].step = "cp_original" \/ (trace[c][i].invoked /\ trace[c][i].rc = 0)

\* C16 as claimed: every output file on disk was written by a card of the
\* run below its own <output_dir>/<card_class>/<locale>/ and is named after
\* that card's static base name; what a step of a card wrote is still there
\* as that card wrote it, unless the card itself removed it (the container,
\* by its animated loop stage); and no card fails in _make_output_folders.
C16_CardsWriteApart ==
    /\ \A f \in outfiles :
          \E c \in Cards :
              /\ instances[c].name = f.holds.card
              /\ C16_Under(c, f)
              /\ C16_NamedAfter(c, f)
    /\ \A c \in Cards :
          \A i \in 1..Len(trace[c]) :
              (/\ C16_Wrote(c, i)
               /\ ~(/\ trace[c][i].step = "animated_png"
                    /\ \E j \in 1..Len(trace[c]) :
                          /\ trace[c][j].step = "animated_gif"
                          /\ C16_Wrote(c, j))) =>
                  \E f \in outfiles :
                      /\ f.holds.card = instances[c].name
                      /\ f.holds.made_by = trace[c][i].step
    /\ \A c \in Cards : status[c] = "Failed" => Len(trace[c]) >= 2

\* at every moment: the info record of a card holds the static path and the
\* frames of its bundle as discovery built them, and besides them only
\* output_paths and the data of the stages; a card no worker has taken has the
\* record it was created with
C17_BundleKept ==
    \A c \in Cards :
        /\ {"static", "animated"} \subseteq DOMAIN info[c]
        /\ DOMAIN info[c] \subseteq {"static", "animated", "output_paths", "ff_out"}
        /\ info[c].static = instances[c].info.static
        /\ info[c].animated = instances[c].info.animated
        /\ status[c] \in {"new", "queued"} => info[c] = instances[c].info

\* in every step: the configuration is left as it is; once the instances are
\* created, the record of a card changes only in a step of that card, which
\* adds entries to it and changes none but output_paths; one step changes the
\* record of one card at most
C17_OwnRecordOnly ==
    /\ config' = config
    /\ mainpc # "start" =>
          /\ instances' = instances
          /\ \A c \in Cards :
                info'[c] # info[c] =>
                    /\ \E w \in DOMAIN worker : worker[w] = c
                    /\ DOMAIN info[c] \subseteq DOMAIN info'[c]
                    /\ \A k \in DOMAIN info[c] \ {"output_paths"} :
                          info'[c][k] = info[c][k]
                    /\ \A d \in Cards \ {c} : info'[d] = info[d]

\* C17: processing a card leaves the configuration unchanged and touches no
\* other card's record: it only adds output_paths and stage data to the
\* card's own info record and never changes the bundle's static path or
\* animated list.
C17_ProcessFrame == []C17_BundleKept /\ [][C17_OwnRecordOnly]_vars

\* C17 witness: a card back is Done, its record holding output_paths and the
\* composited frames besides its bundle, while the record of a card that has
\* taken no step yet is as it was created
C17_Witness ==
    \E c \in Cards, d \in Cards :
        /\ status[c] = "Done"
        /\ {"output_paths", "ff_out"} \subseteq DOMAIN info[c]
        /\ info[c].animated # <<>>
        /\ status[d] \in {"queued", "running"}
        /\ trace[d] = <<>>
        /\ info[d] = instances[d].info
        /\ config = [processes |-> 2,
                     outputs |-> <<"original", "medium", "small", "mediumj",
                                   "icons/small", "icons/medium", "icons/large",
                                   "animated">>]

\* ------------------------------------------------------ stages: claims
\* the error kind of each tool-invoking stage
C5_KindOf(stage) ==
    CASE stage = "medium" -> "MakeMediumCopyError"
      [] stage = "small" -> "MakeSmallCopyError"
      [] stage = "jpg" -> "MakeJpgCopyError"
      [] stage = "icon_small" -> "MakeSmallIconError"
      [] stage = "icon_medium" -> "MakeMediumIconError"
      [] stage = "icon_large" -> "MakeLargeIconError"
      [] stage = "animated_png" -> "MakeAnimatedPNGError"
      [] stage = "animated_gif" -> "MakeAnimatedGIFError"
      [] stage = "mp4" -> "MakeMP4Error"
      [] stage = "webm" -> "MakeWEBMError"

\* C5 as claimed: a stage raises exactly when its tool exits with a code
\* other than 0; the error is of the stage's own kind and of no other and
\* carries the command that was executed, the exit code, stdout and stderr;
\* with exit code 0 the stage returns (0, stdout, stderr).
C5_StageErrorIffNonZeroExit ==
    unit.pc = "called" =>
        LET r == unit.outcome
        IN  /\ (r.tag = "raised") <=> (r.invoked /\ unit.tool.rc # 0)
            /\ r.tag = "raised" =>
                  /\ r.error.kind = C5_KindOf(unit.stage)
                  /\ \A s \in TenStages \ {unit.stage} : r.error.kind # C5_KindOf(s)
                  /\ r.error.value = r.executed
                  /\ r.error.return_code = unit.tool.rc
                  /\ r.error.stdout = unit.tool.out
                  /\ r.error.stderr = unit.tool.err
            /\ (r.invoked /\ unit.tool.rc = 0) =>
                  /\ r.tag = "returned"
                  /\ r.ret = <<0, unit.tool.out, unit.tool.err>>

\* the web encode of a card that is no card back raised before it built a
\* command: no tool ran, and the error is the KeyError of the lookup
C5_RaisedWithoutTool ==
    /\ unit.pc = "called"
    /\ unit.stage \in {"mp4", "webm"}
    /\ unit.card.card_class = "cards"
    /\ unit.info.animated # <<>>
    /\ ~unit.outcome.invoked
    /\ unit.outcome.tag = "raised"
    /\ unit.outcome.error = [kind |-> "KeyError", value |-> "ff_out"]

\* ------------------------------------------------- one card: claims
\* the directories of the output kinds configured for the card
C13_ConfiguredDirs ==
    {<<OutputDir, unit.card.card_class, unit.card.locale, config.outputs[k]>> :
        k \in 1..Len(config.outputs)}

\* C13: a run of process on the same input that finds every configured
\* output directory already created ends as the first run did: the folder
\* step completes, the same output_paths are recorded, the same steps run
\* with the same exit codes, and the same message or error is the outcome.
C13_RerunSameOutcome ==
    unit.pc \in {"process", "returned", "raised"} =>
        \A k \in 2..Len(unit.runs) :
            C13_ConfiguredDirs \subseteq unit.runs[k].before =>
                /\ unit.runs[k].trace[1] =
                      [step |-> "output_folders", invoked |-> FALSE, rc |-> 0]
                /\ Len(unit.runs[k].trace) >= 2
                /\ unit.runs[k].info.output_paths = unit.runs[1].info.output_paths
                /\ unit.runs[k].info = unit.runs[1].info
                /\ unit.runs[k].trace = unit.runs[1].trace
                /\ unit.runs[k].outcome = unit.runs[1].outcome

\* the second run of a card back with frames whose first run converted
\* everything: the directories are there and the folder step completes as
\* before, but ffmpeg, started without -y, asks before it writes over the
\* mp4 file of the first run; the stdin of the caller does not answer y,
\* ffmpeg exits non-zero, and the run ends in the error of the mp4 stage
C13_SecondRunFailsAtMp4 ==
    /\ unit.pc = "raised"
    /\ Len(unit.runs) = 2
    /\ unit.card.info.animated # <<>>
    /\ C13_ConfiguredDirs \subseteq unit.runs[2].before
    /\ unit.runs[1].before = {}
    /\ unit.runs[1].outcome.tag = "ok"
    /\ unit.runs[2].info.output_paths = unit.runs[1].info.output_paths
    /\ unit.runs[2].outcome.tag = "error"
    /\ unit.runs[2].outcome.error.kind = "MakeMP4Error"

\* the same second run with both questions of ffmpeg answered y on the
\* stdin of the caller: the mp4 and webm files are written over and the run
\* returns the message as the first did
C13_SecondRunOverwrites ==
    /\ unit.pc = "returned"
    /\ Len(unit.runs) = 2
    /\ unit.card.info.animated # <<>>
    /\ C13_ConfiguredDirs \subseteq unit.runs[2].before
    /\ unit.runs[1].before = {}
    /\ unit.runs[1].outcome.tag = "ok"
    /\ unit.runs[2].trace = unit.runs[1].trace
    /\ unit.runs[2].outcome = unit.runs[1].outcome

\* the first step of the current run has been taken
C18_FoldersStepTaken == unit.pc \in {"process", "returned", "raised"} /\ unit.pos >= 1

\* C18: whatever directory the system refuses to create, or finds existing,
\* _make_output_folders does not raise: it records the path of every
\* configured output kind in output_paths, and the pipeline goes on to the
\* original-copy stage, the first step that can end the card.
C18_MakeOutputFoldersNeverRaises ==
    C18_FoldersStepTaken =>
        /\ unit.trace[1] = [step |-> "output_folders", invoked |-> FALSE, rc |-> 0]
        /\ DOMAIN unit.info.output_paths =
              {config.outputs[k] : k \in 1..Len(config.outputs)}
        /\ \A o \in DOMAIN unit.info.output_paths :
              unit.info.output_paths[o] =
                 <<OutputDir, unit.card.card_class, unit.card.locale, o>>
        /\ unit.pos = 1 => (unit.pc = "process" /\ unit.outcome.tag = "none")
        /\ unit.pos >= 2 => unit.trace[2].step = "cp_original"
        /\ unit.outcome.tag = "error" => unit.outcome.error.kind # "OSError"

\* C18 witness: the folder step completed and the original-copy stage ran
\* although the system refused to create a configured directory, which does
\* not exist
C18_Witness ==
    /\ C18_FoldersStepTaken
    /\ unit.run = 1
    /\ unit.pos >= 2
    /\ unit.trace[2].step = "cp_original"
    /\ \E k \in 1..Len(config.outputs) :
          /\ config.outputs[k] \in unit.refused
          /\ <<OutputDir, unit.card.card_class, unit.card.locale, config.outputs[k]>>
                \notin dirs
          /\ config.outputs[k] \in DOMAIN unit.info.output_paths

\* the original-copy stage of the current run completed
C19_OriginalCopied ==
    /\ unit.pc \in {"process", "returned", "raised"}
    /\ unit.pos >= 2
    /\ unit.trace[2].step = "cp_original"
    /\ ~(unit.pc = "raised" /\ unit.pos = 2)

\* the directory of the 'original' output kind of the card
C19_OriginalDir == <<OutputDir, unit.card.card_class, unit.card.locale, "original">>

\* a copy of the static file is in the directory of the 'original' kind,
\* under the name of the static file
C19_CopyIsThere ==
    \E f \in outfiles :
        /\ f.path = [dir |-> C19_OriginalDir, file |-> unit.card.info.static.file]
        /\ f.holds.made_by = "cp_original"
        /\ f.holds.from = <<unit.card.info.static>>

\* C19 as claimed: once the original-copy stage has completed, a verbatim
\* copy of the bundle's static file is at
\* <output_dir>/<card_class>/<locale>/original/<static file name>, whatever
\* output kinds are configured and whatever directories were created.
C19_CopyInOriginalDirectory == C19_OriginalCopied => C19_CopyIsThere

\* what of C19 holds: the copy is there when the directory exists
C19_WhenDirectoryExists ==
    (C19_OriginalCopied /\ C19_OriginalDir \in dirs) => C19_CopyIsThere

\* the container of the card: the 'animated' output of the static base name
C20_Container ==
    [dir |-> <<OutputDir, unit.card.card_class, unit.card.locale, "animated">>,
     file |-> unit.card.info.static.file]

\* the loop file of the card: the container's name with the extension .gif
C20_Loop ==
    LET name == unit.card.info.static.file
        dot == CHOOSE i \in 1..Len(name) :
                  name[i] = "." /\ \A j \in (i + 1)..Len(name) : name[j] # "."
    IN  [dir |-> C20_Container.dir,
         file |-> SubSeq(name, 1, dot - 1) \o <<".", "g", "i", "f">>]

C20_OnDisk(path) == \E f \in outfiles : f.path = path

\* the last step taken in the current run
C20_Last == unit.trace[Len(unit.trace)]

\* C20: the animated-container stage leaves the container at the 'animated'
\* output of the static base name; the animated-loop stage that follows
\* reads it; when its conversion exits 0 the loop file, named .gif, is on
\* disk and the container is gone; when it exits non-zero the stage raises
\* the animated-loop error, the card is Failed and the container is still on
\* disk.
C20_LoopStageRemovesContainer ==
    (unit.pc \in {"process", "returned", "raised"} /\ unit.trace # <<>>) =>
        /\ (C20_Last.step = "animated_png" /\ C20_Last.invoked /\ C20_Last.rc = 0) =>
              \E f \in outfiles :
                  f.path = C20_Container /\ f.holds.made_by = "animated_png"
        /\ C20_Last.step = "animated_gif" =>
              /\ C20_Last.invoked
              /\ unit.trace[Len(unit.trace) - 1].step = "animated_png"
              /\ C20_Last.rc = 0 =>
                    /\ unit.pc = "process"
                    /\ ~C20_OnDisk(C20_Container)
                    /\ \E f \in outfiles :
                          /\ f.path = C20_Loop
                          /\ f.holds.made_by = "animated_gif"
                          /\ f.holds.from = <<C20_Container>>
              /\ C20_Last.rc # 0 =>
                    /\ unit.pc = "raised"
                    /\ unit.outcome.tag = "error"
                    /\ unit.outcome.error.kind = "MakeAnimatedGIFError"
                    /\ unit.outcome.error.value.inputs = <<C20_Container>>
                    /\ unit.outcome.error.value.output = C20_Loop
                    /\ C20_OnDisk(C20_Container)
                    /\ unit.run = 1 => ~C20_OnDisk(C20_Loop)

\* C20 witness: the conversion of the animated-loop stage exited non-zero in
\* the first run, the card is Failed and its container is on disk
C20_Witness ==
    /\ unit.pc = "raised"
    /\ unit.run = 1
    /\ C20_Last = [step |-> "animated_gif", invoked |-> TRUE, rc |-> 1]
    /\ unit.outcome.error.kind = "MakeAnimatedGIFError"
    /\ C20_OnDisk(C20_Container)

\* the conversion exited 0: the loop file is on disk and the container is not
C20_RemovedWitness ==
    /\ unit.pc = "process"
    /\ unit.trace # <<>>
    /\ C20_Last = [step |-> "animated_gif", invoked |-> TRUE, rc |-> 0]
    /\ C20_OnDisk(C20_Loop)
    /\ ~C20_OnDisk(C20_Container)

\* ------------------------------------------------ web encodes: claims
\* a web encode stage has been called on a card with frames, after
\* _make_output_folders
C21_WebStageCalled ==
    /\ unit.pc = "called"
    /\ unit.stage \in {"mp4", "webm"}
    /\ unit.info.animated # <<>>
    /\ "animated" \in DOMAIN unit.info.output_paths

\* the frame pattern of a frame file: the frame number of its name replaced
\* by the placeholder
C21_PatternOf(frame) ==
    [dir |-> frame.dir,
     file |-> frame_sub(splitext_root(frame.file)) \o splitext_ext(frame.file)]

\* the 'animated' output path with the extension of the stage
C21_OutputOf(info_, stage) ==
    [dir |-> info_.output_paths["animated"],
     file |-> splitext_root(info_.static.file) \o
                (IF stage = "mp4" THEN <<".", "m", "p", "4">>
                                  ELSE <<".", "w", "e", "b", "m">>)]

\* C21: a web encode stage (mp4, webm) called for a card with animated
\* frames after the output folders exist runs its tool whether or not a
\* composite stage has run before, on the frame pattern of the bundle's
\* original frame files (frame number replaced by _%04d), writing the
\* 'animated' output path with the extension swapped to mp4 or webm.
C21_WebEncodesFromOriginalFrames ==
    C21_WebStageCalled =>
        /\ unit.outcome.invoked
        /\ unit.outcome.executed.inputs = <<C21_PatternOf(unit.info.animated[1])>>
        /\ unit.outcome.executed.output = C21_OutputOf(unit.info, unit.stage)

\* the frame pattern as the stages build it: the placeholder is put into
\* the whole path, the names of the directories included
C21_WholePathPatternOf(frame) ==
    [dir |-> [n \in 1..Len(frame.dir) |->
                IF frame.dir[n] = "out_1" THEN "out_%04d" ELSE frame.dir[n]],
     file |-> C21_PatternOf(frame).file]

\* what the stages do: without the composited frames of info['ff_out'] the
\* lookup fails and no tool is run; with them the pattern is that of the
\* first composited frame, with the placeholder in every directory name that
\* holds a frame number too, and the output path is as stated
C21_FromCompositedFrames ==
    C21_WebStageCalled =>
        IF "ff_out" \in DOMAIN unit.info
        THEN /\ unit.outcome.invoked
             /\ unit.outcome.executed.inputs = <<C21_WholePathPatternOf(unit.info.ff_out[1])>>
             /\ unit.outcome.executed.inputs # <<C21_PatternOf(unit.info.animated[1])>>
             /\ unit.outcome.executed.output = C21_OutputOf(unit.info, unit.stage)
        ELSE /\ ~unit.outcome.invoked
             /\ unit.outcome.tag = "raised"
             /\ unit.outcome.error = [kind |-> "KeyError", value |-> "ff_out"]

\* ------------------------- get_card_instances, one card type after another
\* how many card types execute_pool is asked for at most
MaxTypes == 3

\* the names a card type can have: the three the code knows, and another one
TypeNames == {"cards", "cardbacks", "heroes", "tokens"}

\* a card of the class heroes
HeroCard == Card("heroes", "H", fullpath(InputDir("heroes"), <<"H", ".", "p">>), <<>>)

DiscoveryPool == CardPool \cup {HeroCard}

\* the lists card_types can be
RECURSIVE TypeLists(_)
TypeLists(n) ==
    IF n = 0 THEN {<<>>}
    ELSE LET shorter == TypeLists(n - 1)
         IN  shorter \cup
             {Append(l, t) : l \in {x \in shorter : Len(x) = n - 1}, t \in TypeNames}

\* "obj = None", "if card_type == 'cards': obj = Cards(config)", ..., with a
\* name the code does not know taken for 'cards'
card_object_defaulted(card_type) ==
    IF card_type \in {"cards", "cardbacks", "heroes"} THEN card_type ELSE "cards"

\* "obj = None", "if card_type == 'cards': obj = Cards(config)", "if card_type
\* == 'cardbacks': ...", "if card_type == 'heroes': ...": the class of the
\* object, "None" when there is none
card_object(card_type) ==
    IF card_type \in {"cards", "cardbacks", "heroes"} THEN card_type ELSE "None"

\* "instances += ..." putting the new instances in front
instances_extended_front(instances_, made) == made \o instances_

\* "instances += obj.create_instances(card_dict)"
instances_extended(instances_, made) == instances_ \o made

\* the bundles of a set of cards, by card name
bundles_of(cs) == [name \in {c.name : c \in cs} |-> (CHOOSE c \in cs : c.name = name).info]

\* the orders a dict of these cards can be iterated in
Orderings(cs) == {l \in [1..Cardinality(cs) -> cs] : \A c \in cs : \E i \in DOMAIN l : l[i] = c}

\* what the input folders of the classes hold
DiskOf(cs) ==
    [class \in {"cards", "cardbacks", "heroes"} |->
        cs \cap {c \in DiscoveryPool : c.card_class = class}]

Disks == {DiskOf(cs) : cs \in SUBSET DiscoveryPool}

\* the input folders of the runs that convert: a single card, which runs
\* process as far as the directories that can be created let it; with more
\* cards the output directory is refused, and every card's process ends in
\* _cp_original
ConvertedDisks == {DiskOf({c}) : c \in DiscoveryPool}

\* execute_pool is called with a list of card types and one worker; unit
\* follows the loop of get_card_instances: the types visited and what each of
\* them contributed
DiscoveryInit ==
    /\ cpc = "idle"
    /\ isdir \in BOOLEAN
    /\ walked = <<>>
    /\ cards = EmptyDict
    /\ crawled = EmptyDict
    /\ config = DefaultConfig
    /\ mainpc = "start"
    /\ processes = 1
    /\ instances = <<>>
    /\ taskq = <<>>
    /\ worker = <<>>
    /\ info = <<>>
    /\ pos = <<>>
    /\ status = <<>>
    /\ trace = <<>>
    /\ result = <<>>
    /\ finished = <<>>
    /\ output = <<>>
    /\ raised = [tag |-> "none"]
    /\ dirs = {}
    /\ outfiles = {}
    /\ copying = {}
    /\ communicating = {}
    /\ \E types \in TypeLists(MaxTypes), disk \in Disks :
          /\ unit = [pc |-> "get_card_instances", card_types |-> types, disk |-> disk,
                     visited |-> 0, log |-> <<>>]
          /\ denied \in (IF disk \in ConvertedDisks THEN MkdirFailures ELSE {{OutputDir}})

\* "if not processes: processes = config['processes']", then the call of
\* get_card_instances: "instances = []"
DiscoveryStart ==
    /\ mainpc = "start"
    /\ unit.pc = "get_card_instances"
    /\ processes' = worker_count(processes, config.processes)
    /\ mainpc' = "discover"
    /\ UNCHANGED <<crawlVars, config, instances, taskq, worker, info, pos, status,
                   trace, result, finished, output, raised, dirs, outfiles,
                   copying, communicating, denied, unit>>

\* one turn of "for card_type in card_types": the object of the type, and if
\* there is one, the crawl of its folder and the instances of what it found
DiscoverType ==
    /\ mainpc = "discover"
    /\ unit.visited < Len(unit.card_types)
    /\ LET card_type == unit.card_types[unit.visited + 1]
           obj == card_object(card_type)
       IN  IF obj = "None"
           THEN /\ unit' = [unit EXCEPT !.visited = @ + 1,
                                        !.log = Append(@, [card_type |-> card_type,
                                                           crawled |-> FALSE,
                                                           made |-> <<>>])]
                /\ UNCHANGED <<crawled, instances>>
           ELSE \E l \in Orderings(unit.disk[obj]) :
                    LET card_dict == crawler_result(isdir, bundles_of(unit.disk[obj]))
                        dicts == [class \in DOMAIN crawled \cup {obj} |->
                                     IF class = obj THEN card_dict ELSE crawled[class]]
                        made == create_instances(dicts, l)
                    IN  /\ crawled' = dicts
                        /\ instances' = instances_extended(instances, made)
                        /\ unit' = [unit EXCEPT !.visited = @ + 1,
                                                !.log = Append(@, [card_type |-> card_type,
                                                                   crawled |-> TRUE,
                                                                   made |-> made])]
    /\ UNCHANGED <<cpc, isdir, walked, cards, config, mainpc, processes, taskq, worker,
                   info, pos, status, trace, result, finished, output, raised, dirs,
                   outfiles, copying, communicating, denied>>

\* "return instances", then "pool = multiprocessing.Pool(processes=processes)"
DiscoveryReturn ==
    /\ mainpc = "discover"
    /\ unit.visited = Len(unit.card_types)
    /\ LET n == Len(instances)
       IN  /\ unit' = [unit EXCEPT !.pc = "discovered"]
           /\ worker' = [w \in 1..processes |-> 0]
           /\ info' = [c \in 1..n |-> instances[c].info]
           /\ pos' = [c \in 1..n |-> 0]
           /\ status' = [c \in 1..n |-> "new"]
           /\ trace' = [c \in 1..n |-> <<>>]
           /\ result' = [c \in 1..n |-> [tag |-> "pending"]]
           /\ mainpc' = IF n = 0 THEN "collect" ELSE "submit"
    /\ UNCHANGED <<crawlVars, config, processes, instances, taskq, finished, output,
                   raised, dirs, outfiles, copying, communicating, denied>>

\* execute_pool from its call on: discovery, then the submissions, during
\* which the workers of the pool already take and run the cards submitted,
\* then the collection of the results
DiscoveryNext ==
    \/ DiscoveryStart
    \/ DiscoverType
    \/ DiscoveryReturn
    \/ Submit
    \/ \E w \in DOMAIN worker : TakeTask(w)
    \/ \E w \in DOMAIN worker : MakeOutputFolders(w)
    \/ \E w \in DOMAIN worker : CpOriginal(w)
    \/ \E w \in DOMAIN worker : CpOriginalWrite(w)
    \/ \E w \in DOMAIN worker : RunStage(w)
    \/ \E w \in DOMAIN worker : Composite(w)
    \/ \E w \in DOMAIN worker : Communicate(w)
    \/ \E w \in DOMAIN worker : Finish(w)
    \/ Collect
    \/ CollectRaise
    \/ Return

DiscoverySpec == DiscoveryInit /\ [][DiscoveryNext]_vars

\* ------------------------------------------------- discovery: claims
C22_Known(card_type) == card_type \in {"cards", "cardbacks", "heroes"}

\* the cards the folder of a known type holds
C22_InFolder(card_type) == IF isdir THEN unit.disk[card_type] ELSE {}

RECURSIVE C22_Concat(_)
C22_Concat(log) == IF log = <<>> THEN <<>> ELSE Head(log).made \o C22_Concat(Tail(log))

\* the types are visited one after another in the order given; a known type
\* is crawled and contributes each card of its folder once, another name is
\* not crawled and contributes nothing; the list of instances is what the
\* types visited so far contributed, in that order
C22_OneTypeAfterAnother ==
    /\ Len(unit.log) = unit.visited
    /\ unit.visited <= Len(unit.card_types)
    /\ \A i \in 1..Len(unit.log) :
          LET e == unit.log[i]
          IN  /\ e.card_type = unit.card_types[i]
              /\ e.crawled <=> C22_Known(e.card_type)
              /\ ~C22_Known(e.card_type) => e.made = <<>>
              /\ C22_Known(e.card_type) =>
                    /\ {e.made[j] : j \in 1..Len(e.made)} = C22_InFolder(e.card_type)
                    /\ Len(e.made) = Cardinality(C22_InFolder(e.card_type))
    /\ instances = C22_Concat(unit.log)
    /\ DOMAIN crawled = {t \in TypeNames : C22_Known(t) /\
                            \E i \in 1..Len(unit.log) : unit.log[i].card_type = t}

\* nothing is submitted, no pool exists and nothing is raised before every
\* type is visited and the list returned; from then on the cards that have
\* been submitted are the first of the list, whatever the workers have done
\* with them meanwhile, the cards no worker has taken yet wait in the order
\* of the list, and the submissions are over only when every card of the
\* list is submitted; the only error execute_pool is left with is that of a
\* card's process
C22_ThenDispatch ==
    /\ mainpc \in {"start", "discover"} =>
          /\ taskq = <<>>
          /\ status = <<>>
          /\ worker = <<>>
          /\ raised = [tag |-> "none"]
    /\ mainpc \notin {"start", "discover"} =>
          /\ unit.pc = "discovered"
          /\ unit.visited = Len(unit.card_types)
          /\ DOMAIN status = 1..Len(instances)
          /\ \A c \in 1..Len(instances) :
                status[c] = "new" => \A d \in c..Len(instances) : status[d] = "new"
          /\ \A i \in 1..Len(taskq) :
                /\ status[taskq[i]] = "queued"
                /\ \A j \in 1..(i - 1) : taskq[j] < taskq[i]
          /\ (mainpc = "submit") <=> (\E c \in 1..Len(instances) : status[c] = "new")
    /\ raised # [tag |-> "none"] =>
          /\ mainpc = "raised"
          /\ \E c \in 1..Len(instances) :
                result[c] = [tag |-> "error", error |-> raised.error]

\* once the list is returned, neither the list nor the dicts change; a card
\* that is submitted stays submitted, and the card a step submits is the
\* first of the list not submitted yet, put at the end of the queue
C22_DiscoveryOver ==
    mainpc \notin {"start", "discover"} =>
        /\ instances' = instances
        /\ crawled' = crawled
        /\ unit' = unit
        /\ \A c \in 1..Len(instances) :
              /\ status[c] # "new" => status'[c] # "new"
              /\ (status[c] = "new" /\ status'[c] # "new") =>
                    /\ \A j \in 1..(c - 1) : status[j] # "new"
                    /\ \A d \in (c + 1)..Len(instances) : status'[d] = "new"
                    /\ status'[c] = "queued"
                    /\ taskq' = Append(taskq, c)

C22_SequentialAndComplete == C22_OneTypeAfterAnother /\ C22_ThenDispatch

\* C22: get_card_instances visits the requested card types one after
\* another in the order given; all crawling and card creation is finished
\* before the first card is submitted to the pool; the cards are submitted in
\* the order of the concatenation of each type's cards in card_types order,
\* while the workers of the pool already take and run the cards submitted
\* before; a type name other than 'cards', 'cardbacks' or 'heroes'
\* contributes no cards and no error.
C22_DiscoveryBeforeDispatch ==
    []C22_SequentialAndComplete /\ [][C22_DiscoveryOver]_vars

\* C22 witness: asked for card backs, an unknown type and cards, the run has
\* submitted the card back, which a worker is running, and the first of the
\* two cards, which waits in the queue; the second card is not submitted yet
C22_Witness ==
    /\ mainpc = "submit"
    /\ unit.pc = "discovered"
    /\ unit.card_types = <<"cardbacks", "tokens", "cards">>
    /\ Len(instances) = 3
    /\ instances[1].card_class = "cardbacks"
    /\ instances[2].card_class = "cards"
    /\ instances[3].card_class = "cards"
    /\ status = <<"running", "queued", "new">>
    /\ taskq = <<2>>

\* --------------------------------------------- crawler: shared base names
\* the base name of each file name: the name without its extension
C23_BaseName == [f \in FileNames |-> splitext_root(f)]

\* f is a visible file of base name k in the static directory w of the walk
C23_Shares(w, f, k) ==
    /\ ~IsAnimDir(w)
    /\ f \in w.files
    /\ ~StartsWithDot(f)
    /\ C23_BaseName[f] = k

\* the file at position i of the walk is the first of base name k in walk
\* order: no directory visited earlier holds one, and its own directory
\* holds none of a lesser name
C23_First(i, f, k) ==
    /\ C23_Shares(walked[i], f, k)
    /\ \A h \in 1..(i - 1) : \A g \in walked[h].files : ~C23_Shares(walked[h], g, k)
    /\ \A g \in walked[i].files \ {f} : C23_Shares(walked[i], g, k) => StrLess(f, g)

\* the mapping has one bundle for each base name of a visible static file,
\* and its static path is the first file of that base name in walk order
C23_FirstFileIsStatic ==
    /\ \A i \in 1..Len(walked) : \A f \in walked[i].files :
          C23_Shares(walked[i], f, C23_BaseName[f]) => C23_BaseName[f] \in DOMAIN cards
    /\ \A k \in DOMAIN cards :
          \E i \in 1..Len(walked) :
              /\ walked[i].path = cards[k].static.dir
              /\ C23_First(i, cards[k].static.file, k)

\* in every step of the walk, a bundle that exists stays, keeps its static
\* path, and keeps the frames it has, in their order
C23_BundleKept ==
    \A k \in DOMAIN cards :
        /\ k \in DOMAIN cards'
        /\ cards'[k].static = cards[k].static
        /\ Len(cards'[k].animated) >= Len(cards[k].animated)
        /\ SubSeq(cards'[k].animated, 1, Len(cards[k].animated)) = cards[k].animated

\* C23: when several visible static files of one crawl share a base name
\* (another extension, or another static directory), the mapping has a single
\* bundle for that key, whose static path is the first such file in walk
\* order; a later file of that base name never replaces the static path and
\* never resets the animated list.
C23_FirstStaticFileWins == []C23_FirstFileIsStatic /\ [][C23_BundleKept]_vars

\* C23 witness: the root holds A.j and A.p, its animation folder a frame of
\* A, and a directory visited after it holds A.p again: the bundle of A has
\* the root's A.j and still has the frame
C23_Witness ==
    /\ cpc = "returned"
    /\ Len(walked) = 3
    /\ walked[1].files = {<<"A", ".", "j">>, <<"A", ".", "p">>}
    /\ IsAnimDir(walked[2])
    /\ ~IsAnimDir(walked[3])
    /\ <<"A", ".", "p">> \in walked[3].files
    /\ DOMAIN crawled = {<<"A">>}
    /\ crawled[<<"A">>].static = [dir |-> RootPath, file |-> <<"A", ".", "j">>]
    /\ Len(crawled[<<"A">>].animated) = 1

\* ------------------------------------------- crawler: frames without card
\* the key of each file name as a static file (the name without extension)
\* and as a frame (that, cut at the frame number)
C24_StaticKeyOf == [f \in FileNames |-> splitext_root(f)]
C24_FrameKeyOf == [f \in FileNames |-> frame_split_first(splitext_root(f))]

\* the directory w of the walk is a static one and holds a visible file of
\* base name k
C24_StaticIn(w, k) ==
    /\ ~IsAnimDir(w)
    /\ \E f \in w.files : ~StartsWithDot(f) /\ C24_StaticKeyOf[f] = k

\* so is the directory visited at position i
C24_StaticAt(i, k) == C24_StaticIn(walked[i], k)

\* the frame is a visible file of the animation folder visited at position j
C24_FrameAt(j, fr) ==
    /\ IsAnimDir(walked[j])
    /\ walked[j].path = fr.dir
    /\ fr.file \in walked[j].files
    /\ ~StartsWithDot(fr.file)

\* every bundle of the dict has a static path, a visible static file of its
\* key, and its frames are frames of its key seen after a static file of it
C24_BundlesOf(dict) ==
    \A k \in DOMAIN dict :
        /\ "static" \in DOMAIN dict[k]
        /\ "animated" \in DOMAIN dict[k]
        /\ C24_StaticKeyOf[dict[k].static.file] = k
        /\ ~StartsWithDot(dict[k].static.file)
        /\ \E i \in 1..Len(walked) :
              /\ walked[i].path = dict[k].static.dir
              /\ ~IsAnimDir(walked[i])
              /\ dict[k].static.file \in walked[i].files
        /\ \A n \in 1..Len(dict[k].animated) :
              LET fr == dict[k].animated[n]
              IN  /\ C24_FrameKeyOf[fr.file] = k
                  /\ \E j \in 1..Len(walked) :
                        C24_FrameAt(j, fr) /\ \E i \in 1..(j - 1) : C24_StaticAt(i, k)

\* a frame whose key has no static file seen earlier made no bundle and is
\* in no animated list
C24_FrameAlone(dict) ==
    \A j \in 1..Len(walked) :
        IsAnimDir(walked[j]) =>
            \A f \in walked[j].files :
                LET k == C24_FrameKeyOf[f]
                    fr == [dir |-> walked[j].path, file |-> f]
                IN  (~StartsWithDot(f) /\ \A i \in 1..(j - 1) : ~C24_StaticAt(i, k)) =>
                        /\ \A c \in DOMAIN dict :
                              "animated" \in DOMAIN dict[c] =>
                                  \A n \in 1..Len(dict[c].animated) :
                                      dict[c].animated[n] # fr
                        /\ (\A i \in 1..Len(walked) : ~C24_StaticAt(i, k)) =>
                              k \notin DOMAIN dict

\* the dict during the walk and the dict returned
C24_StaticInEveryBundle ==
    /\ C24_BundlesOf(cards)
    /\ C24_FrameAlone(cards)
    /\ cpc = "returned" => crawled = cards

\* in every step of the walk, a new bundle is of a visible static file of
\* the directory the step visits, never of a frame
C24_CreatedByStaticFile ==
    \A k \in DOMAIN cards' \ DOMAIN cards :
        /\ Len(walked') = Len(walked) + 1
        /\ C24_StaticIn(walked'[Len(walked')], k)
        /\ cards'[k].animated = <<>>

\* C24: every bundle of the crawler, during the walk and when returned, has
\* a static path: a bundle is created only by a static file, so a frame
\* whose key has no static file seen earlier in the walk creates no bundle
\* and is in no animated list, and no bundle without static path is handed
\* on by discovery.
C24_EveryBundleHasStatic ==
    []C24_StaticInEveryBundle /\ [][C24_CreatedByStaticFile]_vars

\* C24 witness: the walk met a frame of A in an animation folder before the
\* directory that holds A's static file; the dict returned has the bundle of
\* A, without frames, and no other
C24_Witness ==
    /\ cpc = "returned"
    /\ \E i \in 1..Len(walked), j \in 1..Len(walked) :
          /\ i < j
          /\ IsAnimDir(walked[i])
          /\ walked[i].files = {<<"A", "_", "1", ".", "p">>}
          /\ walked[j].files = {<<"A", ".", "p">>}
          /\ ~IsAnimDir(walked[j])
    /\ DOMAIN crawled = {<<"A">>}
    /\ crawled[<<"A">>].animated = <<>>

====
